---- MODULE Spec2Model ----
(***************************************************************************)
(* A state-machine model of vee-validate's useForm                         *)
(* (packages/vee-validate/src/types/common.ts): the path registry, the     *)
(* value tree and its two initial-value snapshots, the error bag, the      *)
(* aggregated form meta, schema validation in its three modes and the      *)
(* submission pipeline.                                                    *)
(*                                                                         *)
(* Paths are flat keys: setInPath / getFromPath / unsetPath (utils, not    *)
(* part of the modelled file) act on one key of a finite map.  A key that  *)
(* is missing and a key holding `undefined` are both the value Abs.        *)
(***************************************************************************)
EXTENDS Integers, Sequences, FiniteSets, TLC

\* ------------------------------------------------------------------ bounds
MaxFields == 2
MaxTicks == 1
MaxCalls == 1
MaxSubmits == 1
MaxBatch == 2
MaxOverlap == 2

FieldIds == 1..MaxFields
CallIds == 1..MaxCalls
SubmitIds == 1..MaxSubmits
\* The calls of validate() that can wait for a schema evaluation at one time;
\* CallIds are the first of them.
BatchIds == 1..MaxBatch
\* The invocations of a submission handler there can be, one after another or
\* overlapping; SubmitIds are the first of them.
HandlerIds == 1..MaxOverlap

Paths == {"a", "b"}
Scalars == {"red", "blue"}
Messages == {"m1", "m2"}

\* ------------------------------------------------------------------ values
Abs == [k |-> "abs", s |-> <<>>]
Sc(x) == [k |-> "sc", s |-> <<x>>]
Arr(q) == [k |-> "arr", s |-> q]

EmptyTree == [p \in Paths |-> Abs]

SeqWithout(q, i) == [j \in 1..(Len(q) - 1) |-> IF j < i THEN q[j] ELSE q[j + 1]]

IndexOf(q, x) ==
  IF \E i \in 1..Len(q) : q[i] = x
  THEN CHOOSE i \in 1..Len(q) : q[i] = x /\ \A j \in 1..(i - 1) : q[j] # x
  ELSE 0

\* utils: getFromPath, setInPath, unsetPath, isEqual, klona
getFromPath(tree, p) == tree[p]
setInPath(tree, p, v) == [tree EXCEPT ![p] = v]
unsetPath(tree, p) == [tree EXCEPT ![p] = Abs]
isEqual(x, y) == x = y
isEmptyContainer(v) == v.k = "arr" /\ v.s = <<>>

\* utils: resolveNextCheckboxValue(currentValue, checkedValue, uncheckedValue)
resolveNextCheckboxValue(cur, checked, unchecked) ==
  IF cur.k = "arr"
  THEN LET idx == IndexOf(cur.s, checked.s[1])
       IN IF idx > 0 THEN Arr(SeqWithout(cur.s, idx)) ELSE Arr(Append(cur.s, checked.s[1]))
  ELSE IF isEqual(cur, checked) THEN unchecked ELSE checked

\* ------------------------------------------------------------------ state
VARIABLES
  fieldsByPath,           \* path -> nothing | one field | a group of fields
  fields,                 \* the field objects the rendering layer has created
  formValues,             \* the live value tree
  initialValues,          \* the `current` initial-values snapshot
  originalInitialValues,  \* the `original` initial-values snapshot
  errorBag,               \* path -> no entry | list of messages
  isSubmitting,
  submitCount,
  RESET_LOCK,
  optsInitialValues,      \* whether opts.initialValues was given
  keepValuesOnUnmount,    \* opts.keepValuesOnUnmount ?? false
  hasSchema,              \* whether opts.validationSchema was given
  ticks,                  \* callbacks queued with nextTick, oldest first
  calls,                  \* calls of validate() in flight
  subs,                   \* invocations of a submission handler
  running,                \* the invocation inside its synchronous part, or 0
  fieldCalls              \* calls of validateField() and of validate() without a schema

vars == <<fieldsByPath, fields, formValues, initialValues, originalInitialValues,
          errorBag, isSubmitting, submitCount, RESET_LOCK, optsInitialValues,
          keepValuesOnUnmount, hasSchema, ticks, calls, subs, running, fieldCalls>>

\* ------------------------------------------------------------------ fields
\* A slot of `fields` no field object occupies.
NoField == [mounted |-> FALSE, name |-> "a", type |-> "text", keep |-> "undef",
            checkedValue |-> Abs, uncheckedValue |-> Abs,
            touched |-> FALSE, pending |-> FALSE, valid |-> TRUE, validated |-> FALSE]

\* A field object as useField creates it, before it registers.
NewField(p, type, keep, checked) ==
  [mounted |-> TRUE, name |-> p, type |-> type, keep |-> keep,
   checkedValue |-> checked, uncheckedValue |-> Abs,
   touched |-> FALSE, pending |-> FALSE, valid |-> TRUE, validated |-> FALSE]

\* ------------------------------------------------------------------ registry
NoEntry == [kind |-> "none", m |-> <<>>]

isFieldGroup(e) == e.kind = "group"

fieldExists(reg, p) == reg[p].kind # "none"

\* The fields an entry holds, whether one field or a group.
Members(e) == {e.m[i] : i \in 1..Len(e.m)}

insertFieldAtPath(reg, f, p) ==
  IF reg[p].kind = "none"
  THEN [reg EXCEPT ![p] = [kind |-> "single", m |-> <<f>>]]
  ELSE [reg EXCEPT ![p] = [kind |-> "group", m |-> Append(reg[p].m, f)]]

\* Mutant: a group left with one member becomes a single field again.
removeFieldFromPath_Collapses(reg, f, p) ==
  LET e == reg[p] IN
  IF f \notin Members(e) THEN reg
  ELSE IF Len(e.m) = 1 THEN [reg EXCEPT ![p] = NoEntry]
  ELSE [reg EXCEPT ![p] = [kind |-> IF Len(e.m) = 2 THEN "single" ELSE "group",
                           m |-> SeqWithout(e.m, IndexOf(e.m, f))]]

removeFieldFromPath(reg, f, p) ==
  LET e == reg[p] IN
  IF e.kind = "none" THEN reg
  ELSE IF e.kind = "single" /\ e.m[1] = f THEN [reg EXCEPT ![p] = NoEntry]
  ELSE IF e.kind = "group"
  THEN LET idx == IndexOf(e.m, f) IN
       IF idx = 0 THEN reg
       ELSE IF Len(e.m) = 1 THEN [reg EXCEPT ![p] = NoEntry]
       ELSE [reg EXCEPT ![p] = [kind |-> "group", m |-> SeqWithout(e.m, idx)]]
  ELSE reg

\* Object.values(fieldsByPath).flat(1): every field of every entry.
RegistryFields(reg) == UNION {Members(reg[p]) : p \in Paths}

\* applyFieldMutation with the mutation f => (f[key] = val): on the one field of
\* the entry, or on every member of the group.
applyFieldMutation(fs, e, key, val) ==
  [f \in FieldIds |-> IF f \in Members(e) THEN [fs[f] EXCEPT ![key] = val] ELSE fs[f]]

\* mutateAllFields with the mutation f => (f[key] = val).
mutateAllFields(fs, reg, key, val) ==
  [f \in FieldIds |-> IF f \in RegistryFields(reg) THEN [fs[f] EXCEPT ![key] = val] ELSE fs[f]]

\* ------------------------------------------------------------------ error bag
NoBag == [has |-> FALSE, msgs |-> <<>>]
Bag(q) == [has |-> TRUE, msgs |-> q]

\* A message argument: undefined, a string, or a list of strings.
MsgUndef == [k |-> "undef", v |-> <<>>]
MsgStr(x) == [k |-> "str", v |-> <<x>>]
MsgList(q) == [k |-> "list", v |-> q]

\* `!message`: undefined is falsy, a non-empty string and every array are truthy.
Falsy(message) == message.k = "undef"

normalizeErrorItem(message) ==
  IF message.k = "list" THEN message.v
  ELSE IF message.k = "str" THEN message.v
  ELSE <<>>

setFieldErrorBag(bag, p, message) ==
  IF Falsy(message) THEN [bag EXCEPT ![p] = NoBag]
  ELSE [bag EXCEPT ![p] = Bag(normalizeErrorItem(message))]

setFieldError(bag, p, message) == setFieldErrorBag(bag, p, message)

\* setErrorBag(fields): `given` maps every path to its message, MsgUndef when unset.
setErrorBag(given) ==
  [p \in Paths |-> IF ~Falsy(given[p]) THEN Bag(normalizeErrorItem(given[p])) ELSE NoBag]

setErrors(given) == setErrorBag(given)

\* The first error of each path: the paths it has a key for, and the message.
errorsKeys(bag) == {p \in Paths : bag[p].has /\ Len(bag[p].msgs) > 0}
errors(bag, p) == bag[p].msgs[1]


\* A free slot of `calls`, and a handler invocation that has not begun.
NoCall == [st |-> "free", mode |-> "force", owner |-> 0, valid |-> TRUE,
           results |-> [p \in Paths |-> NoBag]]

NoSub == [pc |-> "idle", hasFn |-> FALSE, hasOnInvalid |-> FALSE, fnThrows |-> FALSE,
          valid |-> TRUE, errs |-> {}, raw |-> [p \in Paths |-> NoBag], fnCalls |-> 0, invalidCalls |-> 0,
          invalidErrs |-> {}, outcome |-> "none"]

\* A free slot of `fieldCalls`: the fields whose validate() the call invoked, the
\* fields whose result it still waits for, the results it got, and what it
\* returned once done.
NoFieldCall == [st |-> "free", kind |-> "field", path |-> "a", invoked |-> {}, awaits |-> {},
                got |-> [f \in FieldIds |-> NoBag], valid |-> TRUE, errors |-> <<>>,
                errs |-> {}]

\* ------------------------------------------------------------------ values
\* Mutant: every registered field is treated as a single checkbox.
setFieldValue_AlwaysToggles(vals, reg, fs, lock, p, v, force) ==
  IF reg[p].kind = "none" \/ force \/ lock THEN setInPath(vals, p, v)
  ELSE setInPath(vals, p,
         resolveNextCheckboxValue(getFromPath(vals, p), v, fs[reg[p].m[1]].uncheckedValue))

\* Mutant: a checkbox group takes the given value instead of toggling it in
\* the path's array.
setFieldValue_GroupReplaces(vals, reg, fs, lock, p, v, force) ==
  IF reg[p].kind = "single" /\ fs[reg[p].m[1]].type = "checkbox" /\ ~force /\ ~lock
  THEN setInPath(vals, p,
         resolveNextCheckboxValue(getFromPath(vals, p), v, fs[reg[p].m[1]].uncheckedValue))
  ELSE setInPath(vals, p, v)

\* setFieldValue(field, value, {force}): the value tree it leaves.
setFieldValue(vals, reg, fs, lock, p, v, force) ==
  LET fieldInstance == reg[p]
      cur == getFromPath(vals, p)
  IN
  IF fieldInstance.kind = "none" THEN setInPath(vals, p, v)
  ELSE IF isFieldGroup(fieldInstance) /\ fs[fieldInstance.m[1]].type = "checkbox" /\ v.k # "arr"
  THEN setInPath(vals, p,
         resolveNextCheckboxValue(IF cur.k = "abs" THEN Arr(<<>>) ELSE cur, v, Abs))
  ELSE IF ~isFieldGroup(fieldInstance) /\ fs[fieldInstance.m[1]].type = "checkbox"
          /\ ~force /\ ~lock
  THEN setInPath(vals, p,
         resolveNextCheckboxValue(cur, v, fs[fieldInstance.m[1]].uncheckedValue))
  ELSE setInPath(vals, p, v)

\* Mutant: the old values are not deleted first.
setValues_NoClear(reg, fs, lock, given) ==
  [p \in Paths |->
     IF given[p].k = "abs" THEN formValues[p]
     ELSE setFieldValue(formValues, reg, fs, lock, p, given[p], FALSE)[p]]

\* setValues(fields): every key is deleted, then each given key is set with
\* setFieldValue; the keys are independent of one another.
setValues(reg, fs, lock, given) ==
  [p \in Paths |->
     IF given[p].k = "abs" THEN Abs
     ELSE setFieldValue(EmptyTree, reg, fs, lock, p, given[p], FALSE)[p]]

\* wasTouched of setInitialValues, for the entry at a path.
wasTouched(fs, e) == \E f \in Members(e) : fs[f].touched

\* Mutant: touched fields are overwritten as well.
setInitialValuesFields_Touched(vals, reg, fs, values, updateFields) ==
  IF ~updateFields THEN vals
  ELSE [p \in Paths |-> IF reg[p].kind = "none" THEN vals[p] ELSE getFromPath(values, p)]

\* The value tree setInitialValues(values, updateFields) leaves.
setInitialValuesFields(vals, reg, fs, values, updateFields) ==
  IF ~updateFields THEN vals
  ELSE [p \in Paths |->
          IF reg[p].kind = "none" \/ wasTouched(fs, reg[p]) THEN vals[p]
          ELSE getFromPath(values, p)]

\* useFormMeta: isDirty compares the live values with the snapshot it was given,
\* and useForm hands it originalInitialValues.
metaInitialValues == originalInitialValues

isDirty == ~isEqual(formValues, metaInitialValues)

\* ------------------------------------------------------------------ actions
Idle == running = 0

\* A field is inserted at a path: the entry is a new array (or a single field), no
\* longer the array a waiting clean-up captured.
MarkInserted(q, p) ==
  [i \in 1..Len(q) |-> IF q[i].name = p THEN [q[i] EXCEPT !.same = FALSE] ELSE q[i]]

\* The first field at a path starts validating itself (field.validate()).
fieldValidateStart(fs, f) == [fs EXCEPT ![f].pending = TRUE]

\* validateField(path): the fields whose validate() is invoked, every member when
\* the path holds a group, and the field whose promise is returned.
validateFieldInvoked(reg, p) == Members(reg[p])

validateFieldReturns(reg, p) == reg[p].m[1]

\* The fields once validateField(path) has invoked them.
validateField(fs, reg, p) ==
  [f \in FieldIds |->
     IF f \in validateFieldInvoked(reg, p) THEN fieldValidateStart(fs, f)[f] ELSE fs[f]]

\* registerField(field): the field object is created and registers under its name.
RegisterField(f, p, type, keep, checked) ==
  /\ Idle
  /\ ~fields[f].mounted
  /\ LET reg == insertFieldAtPath(fieldsByPath, f, p)
         fs == [fields EXCEPT ![f] = NewField(p, type, keep, checked)]
         initialErrorMessage == p \in errorsKeys(errorBag)
     IN /\ fieldsByPath' = reg
        /\ fields' = IF initialErrorMessage THEN validateField(fs, reg, p) ELSE fs
  /\ ticks' = MarkInserted(ticks, p)
  /\ UNCHANGED <<formValues, initialValues, originalInitialValues, errorBag, isSubmitting,
                 submitCount, RESET_LOCK, optsInitialValues, keepValuesOnUnmount, hasSchema,
                 calls, subs, running, fieldCalls>>

SetFieldValue(p, v, force) ==
  /\ Idle
  /\ formValues' = setFieldValue(formValues, fieldsByPath, fields, RESET_LOCK, p, v, force)
  /\ UNCHANGED <<fieldsByPath, fields, initialValues, originalInitialValues, errorBag,
                 isSubmitting, submitCount, RESET_LOCK, optsInitialValues,
                 keepValuesOnUnmount, hasSchema, ticks, calls, subs, running, fieldCalls>>

SetValues(given) ==
  /\ Idle
  /\ formValues' = setValues(fieldsByPath, fields, RESET_LOCK, given)
  /\ UNCHANGED <<fieldsByPath, fields, initialValues, originalInitialValues, errorBag,
                 isSubmitting, submitCount, RESET_LOCK, optsInitialValues,
                 keepValuesOnUnmount, hasSchema, ticks, calls, subs, running, fieldCalls>>

\* setFieldTouched(field, isTouched): every field at the path, none when unregistered.
setFieldTouched(fs, reg, p, isTouched) ==
  IF reg[p].kind # "none" THEN applyFieldMutation(fs, reg[p], "touched", isTouched) ELSE fs

SetFieldTouched(p, isTouched) ==
  /\ Idle
  /\ fields' = setFieldTouched(fields, fieldsByPath, p, isTouched)
  /\ UNCHANGED <<fieldsByPath, formValues, initialValues, originalInitialValues, errorBag,
                 isSubmitting, submitCount, RESET_LOCK, optsInitialValues,
                 keepValuesOnUnmount, hasSchema, ticks, calls, subs, running, fieldCalls>>

StageInitialValue(p, v, updateOriginal) ==
  /\ Idle
  /\ formValues' = setInPath(formValues, p, v)
  /\ initialValues' = setInPath(initialValues, p, v)
  /\ originalInitialValues' =
       IF updateOriginal /\ ~optsInitialValues
       THEN setInPath(originalInitialValues, p, v)
       ELSE originalInitialValues
  /\ UNCHANGED <<fieldsByPath, fields, errorBag, isSubmitting, submitCount, RESET_LOCK,
                 optsInitialValues, keepValuesOnUnmount, hasSchema, ticks, calls, subs,
                 running, fieldCalls>>

SetFieldInitialValue(p, v) ==
  /\ Idle
  /\ initialValues' = setInPath(initialValues, p, v)
  /\ UNCHANGED <<fieldsByPath, fields, formValues, originalInitialValues, errorBag,
                 isSubmitting, submitCount, RESET_LOCK, optsInitialValues,
                 keepValuesOnUnmount, hasSchema, ticks, calls, subs, running, fieldCalls>>

UnsetInitialValue(p) ==
  /\ Idle
  /\ initialValues' = unsetPath(initialValues, p)
  /\ UNCHANGED <<fieldsByPath, fields, formValues, originalInitialValues, errorBag,
                 isSubmitting, submitCount, RESET_LOCK, optsInitialValues,
                 keepValuesOnUnmount, hasSchema, ticks, calls, subs, running, fieldCalls>>

SetInitialValues(values, updateFields) ==
  /\ Idle
  /\ initialValues' = values
  /\ originalInitialValues' = values
  /\ formValues' = setInitialValuesFields(formValues, fieldsByPath, fields, values, updateFields)
  /\ UNCHANGED <<fieldsByPath, fields, errorBag, isSubmitting, submitCount, RESET_LOCK,
                 optsInitialValues, keepValuesOnUnmount, hasSchema, ticks, calls, subs,
                 running, fieldCalls>>


\* ------------------------------------------------------------------ field lifecycle
\* The callback unregisterField leaves with nextTick: what it captured.
\* `alone` is not read by the callback: it records, for the properties, whether
\* the field was the only one at its path when it left.
CleanupTick(f, p, isGroup) ==
  [kind |-> "cleanup", name |-> p, isGroup |-> isGroup, same |-> isGroup,
   keep |-> fields[f].keep, checkedValue |-> fields[f].checkedValue,
   alone |-> Len(fieldsByPath[p].m) = 1]

\* The watcher of a field's name, waiting for its first nextTick: the field, the
\* path it had and the path it has now.
RenameTick(f, oldPath, newPath) ==
  [kind |-> "rename", name |-> newPath, oldPath |-> oldPath, f |-> f, same |-> FALSE,
   oldError |-> FALSE, revalidated |-> FALSE]

\* The same watcher, waiting for its second nextTick: whether it found an error
\* at the old path, and whether it validated the new one.
RenamedTick(t, oldError, revalidated) ==
  [t EXCEPT !.kind = "renamed", !.oldError = oldError, !.revalidated = revalidated]

\* Whether a watcher of field f is still at work.
Renaming(f) ==
  \E i \in 1..Len(ticks) : ticks[i].kind \in {"rename", "renamed"} /\ ticks[i].f = f

\* unregisterField(field): the field leaves the registry at once, the clean-up
\* of its value and error waits for the next tick.
UnregisterField(f) ==
  /\ Idle
  /\ fields[f].mounted
  /\ ~Renaming(f)
  /\ Len(ticks) < MaxTicks
  /\ LET fieldName == fields[f].name
         fieldInstance == fieldsByPath[fieldName]
         isGroup == fieldInstance.kind # "none" /\ isFieldGroup(fieldInstance)
     IN /\ fieldsByPath' = removeFieldFromPath(fieldsByPath, f, fieldName)
        /\ ticks' = Append(ticks, CleanupTick(f, fieldName, isGroup))
  /\ fields' = [fields EXCEPT ![f] = NoField]
  /\ UNCHANGED <<formValues, initialValues, originalInitialValues, errorBag, isSubmitting,
                 submitCount, RESET_LOCK, optsInitialValues, keepValuesOnUnmount, hasSchema,
                 calls, subs, running, fieldCalls>>

\* Mutant: the form-level setting wins over a field that says no.
shouldKeepValue_FormFirst(t) == keepValuesOnUnmount \/ t.keep = "true"

\* unref(field.keepValueOnUnmount) ?? unref(keepValuesOnUnmount)
shouldKeepValue(t) == IF t.keep = "undef" THEN keepValuesOnUnmount ELSE t.keep = "true"

\* Whether the path still belongs to the group the field left: the group's array
\* is still the entry (nothing was inserted at the path since), or no entry is left.
isSameGroup(t) == t.isGroup /\ (t.same \/ ~fieldExists(fieldsByPath, t.name))

\* Mutant: the whole path goes instead of the member's checked value.
cleanupGroupValue_WholePath(t) ==
  IF isSameGroup(t) /\ ~shouldKeepValue(t) THEN unsetPath(formValues, t.name) ELSE formValues

\* The first half of the clean-up: the group's dangling value.
cleanupGroupValue(t) ==
  LET currentGroupValue == getFromPath(formValues, t.name) IN
  IF isSameGroup(t) /\ ~shouldKeepValue(t)
  THEN IF currentGroupValue.k = "arr"
       THEN LET valueIdx == IF t.checkedValue.k = "sc"
                            THEN IndexOf(currentGroupValue.s, t.checkedValue.s[1]) ELSE 0
            IN IF valueIdx > 0
               THEN setFieldValue(formValues, fieldsByPath, fields, RESET_LOCK, t.name,
                                  Arr(SeqWithout(currentGroupValue.s, valueIdx)), TRUE)
               ELSE formValues
       ELSE IF currentGroupValue = t.checkedValue THEN unsetPath(formValues, t.name)
       ELSE formValues
  ELSE formValues

\* Mutant: the path is not looked up again before its value is removed.
cleanupPathValue_NoRecheck(t, vals) ==
  IF shouldKeepValue(t) THEN vals ELSE unsetPath(vals, t.name)

\* The second half: the path's value, when no field is left at the path.
cleanupPathValue(t, vals) ==
  LET currentGroupValue == getFromPath(formValues, t.name) IN
  IF fieldExists(fieldsByPath, t.name) THEN vals
  ELSE IF shouldKeepValue(t) THEN vals
  ELSE IF t.isGroup /\ currentGroupValue.k = "arr" /\ ~isEmptyContainer(currentGroupValue)
  THEN vals
  ELSE unsetPath(vals, t.name)

\* The name of a field changes (the rendering layer re-keys it): the watcher
\* registerField installed is triggered and waits for the next tick.
RenameField(f, newPath) ==
  /\ Idle
  /\ fields[f].mounted
  /\ fields[f].name # newPath
  /\ ~Renaming(f)
  /\ Len(ticks) < MaxTicks
  /\ fields' = [fields EXCEPT ![f].name = newPath]
  /\ ticks' = Append(ticks, RenameTick(f, fields[f].name, newPath))
  /\ UNCHANGED <<fieldsByPath, formValues, initialValues, originalInitialValues, errorBag,
                 isSubmitting, submitCount, RESET_LOCK, optsInitialValues,
                 keepValuesOnUnmount, hasSchema, calls, subs, running, fieldCalls>>

\* Mutant: the old path's error is left alone.
renameHadErrors_NewOnly(t) == t.name \in errorsKeys(errorBag)

\* errors.value[oldPath] || errors.value[newPath]
renameHadErrors(t) == t.oldPath \in errorsKeys(errorBag) \/ t.name \in errorsKeys(errorBag)

\* The registry once the watcher has moved the field.
renameRegistry(t) ==
  insertFieldAtPath(removeFieldFromPath(fieldsByPath, t.f, t.oldPath), t.f, t.name)

\* What a nextTick callback does to the registry, the fields, the values, the
\* error bag and the queue: the clean-up of an unregistered field, the first
\* part of a rename (move the field, clear the old error, validate the new
\* path) or its second part (unset the old path when no field is left there).
tickRegistry(t) == IF t.kind = "rename" THEN renameRegistry(t) ELSE fieldsByPath

tickFields(t) ==
  IF t.kind = "rename" /\ renameHadErrors(t)
  THEN validateField(fields, renameRegistry(t), t.name)
  ELSE fields

\* Mutant: the watcher unsets the old path without looking it up again.
tickValues_NoRecheck(t) ==
  IF t.kind = "cleanup" THEN cleanupPathValue(t, cleanupGroupValue(t))
  ELSE IF t.kind = "renamed" THEN unsetPath(formValues, t.oldPath)
  ELSE formValues

tickValues(t) ==
  IF t.kind = "cleanup" THEN cleanupPathValue(t, cleanupGroupValue(t))
  ELSE IF t.kind = "renamed" /\ ~fieldExists(fieldsByPath, t.oldPath)
  THEN unsetPath(formValues, t.oldPath)
  ELSE formValues

tickErrors(t) ==
  IF t.kind = "cleanup"
  THEN IF fieldExists(fieldsByPath, t.name) THEN errorBag
       ELSE setFieldError(errorBag, t.name, MsgUndef)
  ELSE IF t.kind = "rename" /\ renameHadErrors(t)
  THEN setFieldError(errorBag, t.oldPath, MsgUndef)
  ELSE errorBag

\* Mutant: the callback leaves the lock as it is.
tickLock_Held(t) == RESET_LOCK

\* The callback resetForm leaves with nextTick releases the lock.
tickLock(t) == IF t.kind = "unlock" THEN FALSE ELSE RESET_LOCK

tickQueue(t) ==
  IF t.kind = "rename"
  THEN Append(MarkInserted(Tail(ticks), t.name),
              RenamedTick(t, t.oldPath \in errorsKeys(errorBag), renameHadErrors(t)))
  ELSE Tail(ticks)

\* The oldest nextTick callback runs.
RunTick ==
  /\ Idle
  /\ Len(ticks) > 0
  /\ LET t == Head(ticks) IN
       /\ fieldsByPath' = tickRegistry(t)
       /\ fields' = tickFields(t)
       /\ formValues' = tickValues(t)
       /\ errorBag' = tickErrors(t)
       /\ RESET_LOCK' = tickLock(t)
       /\ ticks' = tickQueue(t)
  /\ UNCHANGED <<initialValues, originalInitialValues, isSubmitting,
                 submitCount, optsInitialValues, keepValuesOnUnmount, hasSchema,
                 calls, subs, running, fieldCalls>>

\* ------------------------------------------------------------------ resetForm
\* field.resetField(): the field is untouched, not validated and without errors
\* again.
resetField(r) == [r EXCEPT !.touched = FALSE, !.validated = FALSE, !.valid = TRUE]

\* mutateAllFields(f => f.resetField())
resetFields(fs, reg) ==
  [f \in FieldIds |-> IF f \in RegistryFields(reg) THEN resetField(fs[f]) ELSE fs[f]]

\* Mutant: the reset replays the `current` snapshot.
resetNewValues_Current(hasValues, values) == IF hasValues THEN values ELSE initialValues

\* state?.values ? state.values : originalInitialValues.value
resetNewValues(hasValues, values) == IF hasValues THEN values ELSE originalInitialValues

\* The value tree resetForm leaves: setValues under the reset lock.
resetValues(reg, fs, newValues) == setValues(reg, fs, TRUE, newValues)

\* The callback that releases the lock.
UnlockTick == [kind |-> "unlock", name |-> ""]

\* The queue once resetForm has left its callback: a second callback behind one
\* that still waits changes nothing the first does not, and is not queued.
resetQueue(q) ==
  IF \E i \in 1..Len(q) : q[i].kind = "unlock" THEN q ELSE Append(q, UnlockTick)

\* resetForm(state), with state.values given or not, and no touched, errors or
\* submitCount in state.
ResetForm(hasValues, values) ==
  /\ Idle
  /\ Len(resetQueue(ticks)) <= MaxTicks
  /\ RESET_LOCK' = TRUE
  /\ fields' = resetFields(fields, fieldsByPath)
  /\ initialValues' = resetNewValues(hasValues, values)
  /\ originalInitialValues' = resetNewValues(hasValues, values)
  /\ formValues' = resetValues(fieldsByPath, resetFields(fields, fieldsByPath),
                               resetNewValues(hasValues, values))
  /\ errorBag' = setErrors([p \in Paths |-> MsgUndef])
  /\ submitCount' = 0
  /\ ticks' = resetQueue(ticks)
  /\ UNCHANGED <<fieldsByPath, isSubmitting, optsInitialValues, keepValuesOnUnmount,
                 hasSchema, calls, subs, running, fieldCalls>>

\* ------------------------------------------------------------------ errors set by the caller
SetFieldError(p, message) ==
  /\ Idle
  /\ errorBag' = setFieldError(errorBag, p, message)
  /\ UNCHANGED <<fieldsByPath, fields, formValues, initialValues, originalInitialValues,
                 isSubmitting, submitCount, RESET_LOCK, optsInitialValues,
                 keepValuesOnUnmount, hasSchema, ticks, calls, subs, running, fieldCalls>>

SetErrors(given) ==
  /\ Idle
  /\ errorBag' = setErrors(given)
  /\ UNCHANGED <<fieldsByPath, fields, formValues, initialValues, originalInitialValues,
                 isSubmitting, submitCount, RESET_LOCK, optsInitialValues,
                 keepValuesOnUnmount, hasSchema, ticks, calls, subs, running, fieldCalls>>

\* ------------------------------------------------------------------ form meta
\* Mutant: touched merged with `every`.
MERGE_STRATEGIES_TouchedEvery == [touched |-> "every", pending |-> "some", valid |-> "every"]

MERGE_STRATEGIES == [touched |-> "some", pending |-> "some", valid |-> "every"]

\* calculateFlags: the flag of every field of the registry, merged by its strategy.
calculateFlags(fs, reg, flag) ==
  IF MERGE_STRATEGIES[flag] = "some"
  THEN \E f \in RegistryFields(reg) : fs[f][flag]
  ELSE \A f \in RegistryFields(reg) : fs[f][flag]

flagsTouched == calculateFlags(fields, fieldsByPath, "touched")
flagsPending == calculateFlags(fields, fieldsByPath, "pending")
flagsValid == calculateFlags(fields, fieldsByPath, "valid")

\* The exposed meta: {...flags, valid: flags.valid && !keysOf(errors).length, dirty}.
metaTouched == flagsTouched
metaPending == flagsPending
\* Mutant: valid without the error map.
metaValid_FlagsOnly == flagsValid

metaValid == flagsValid /\ Cardinality(errorsKeys(errorBag)) = 0
metaDirty == isDirty

\* ------------------------------------------------------------------ schema validation
Modes == {"silent", "validated-only", "force"}

\* formResult.results of a schema evaluation: per path no key, an empty list or
\* a list of messages.  Every path meets each of the three in some result.
SchemaResults ==
  {[p \in Paths |-> IF p = "a" THEN NoBag ELSE Bag(<<>>)],
   [p \in Paths |-> IF p = "a" THEN Bag(<<>>) ELSE Bag(<<"m1">>)],
   [p \in Paths |-> IF p = "a" THEN Bag(<<"m1">>) ELSE NoBag]}

\* formResult.valid, as the schema adapters report it: no path has a message.
SchemaValid(results) == \A p \in Paths : Len(results[p].msgs) = 0

\* (formResult.results[path] || {errors: []}).errors
messagesOf(results, p) == results[p].msgs

\* Mutant: the keys of the error bag are left out.
resultPaths_NoBagKeys(results, reg, bag) ==
  {p \in Paths : results[p].has \/ reg[p].kind # "none"}

\* The paths the result is applied to: the result's keys, the registered paths
\* and the keys of the error bag.
resultPaths(results, reg, bag) ==
  {p \in Paths : results[p].has \/ reg[p].kind # "none" \/ bag[p].has}

\* Mutant: a group counts as validated only when all its fields are.
wasValidated_Every(fs, e) == \A f \in Members(e) : fs[f].validated

wasValidated(fs, e) == \E f \in Members(e) : fs[f].validated

\* Mutant: the silent mode is not told apart from force.
updatesErrors_NoSilent(fs, e, mode) == ~(mode = "validated-only" /\ ~wasValidated(fs, e))

\* Whether the fields at a path get their error state from this result.
updatesErrors(fs, e, mode) ==
  /\ mode # "silent"
  /\ ~(mode = "validated-only" /\ ~wasValidated(fs, e))

\* field.setState({errors}): the field's errors live in the error bag, under
\* the field's path.
fieldSetErrors(bag, p, messages) == setFieldErrorBag(bag, p, MsgList(messages))

\* The error bag after the result is applied in `mode`.
applyResultErrors(results, reg, fs, bag, mode) ==
  [p \in Paths |->
     IF p \notin resultPaths(results, reg, bag) THEN bag[p]
     ELSE IF reg[p].kind = "none"
     THEN setFieldError(bag, p, MsgList(messagesOf(results, p)))[p]
     ELSE IF updatesErrors(fs, reg[p], mode)
     THEN fieldSetErrors(bag, p, messagesOf(results, p))[p]
     ELSE bag[p]]

\* The fields after the result is applied: meta.valid of the fields of every
\* registered path, whatever the mode.
applyResultFields(results, reg, fs) ==
  [f \in FieldIds |->
     IF f \in RegistryFields(reg)
     THEN LET p == CHOOSE q \in Paths : f \in Members(reg[q])
          IN applyFieldMutation(fs, reg[p], "valid", Len(messagesOf(results, p)) = 0)[f]
     ELSE fs[f]]

\* validation.errors: the first message of every path that has one.
resultErrors(results, reg, bag) ==
  {<<p, messagesOf(results, p)[1]>> :
     p \in {q \in resultPaths(results, reg, bag) : Len(messagesOf(results, q)) > 0}}

\* Mutant: only the first field of each path is marked.
validateMarks_FirstOnly(fs, reg, mode) ==
  IF mode = "force"
  THEN [f \in FieldIds |->
          IF \E p \in Paths : reg[p].kind # "none" /\ reg[p].m[1] = f
          THEN [fs[f] EXCEPT !.validated = TRUE] ELSE fs[f]]
  ELSE fs

\* validate(opts), its synchronous part: `force` marks every field validated.
validateMarks(fs, reg, mode) ==
  IF mode = "force" THEN mutateAllFields(fs, reg, "validated", TRUE) ELSE fs

\* The queue a call waits in: the silent batch or the live batch.
\* Mutant: one queue for every mode.
QueueOf_Merged(mode) == "live"

\* mode === 'silent' ? debouncedSilentValidation() : debouncedValidation()
QueueOf(mode) == IF mode = "silent" THEN "silent" ELSE "live"

\* opts?.mode || 'force'
validateMode(optMode) == IF optMode = "undefined" THEN "force" ELSE optMode

\* Mutant: every member of a group is asked to validate.
validateInvoked_All(reg) == RegistryFields(reg)

\* validate() without a schema: the field of every entry, the first one of a group.
validateInvoked(reg) == {reg[p].m[1] : p \in {q \in Paths : reg[q].kind # "none"}}

\* The fields once validate() has marked them and asked one per entry to validate.
validateFields(fs, reg, mode) ==
  LET marked == validateMarks(fs, reg, mode)
  IN [f \in FieldIds |->
        IF f \in validateInvoked(reg) THEN fieldValidateStart(marked, f)[f] ELSE marked[f]]

\* validate(opts): fields are marked; with a schema the call joins its batch,
\* without one it asks the fields and waits for all of them.
Validate(c, optMode) ==
  /\ Idle
  /\ IF hasSchema
     THEN /\ calls[c].st = "free"
          /\ fields' = validateMarks(fields, fieldsByPath, validateMode(optMode))
          /\ calls' = [calls EXCEPT ![c] = [NoCall EXCEPT !.st = "queued",
                                                          !.mode = validateMode(optMode)]]
          /\ UNCHANGED fieldCalls
     ELSE /\ fieldCalls[c].st # "waiting"
          /\ fields' = validateFields(fields, fieldsByPath, validateMode(optMode))
          /\ fieldCalls' = [fieldCalls EXCEPT ![c] =
               IF validateInvoked(fieldsByPath) = {}
               THEN [NoFieldCall EXCEPT !.st = "done", !.kind = "form"]
               ELSE [NoFieldCall EXCEPT !.st = "waiting", !.kind = "form",
                                        !.invoked = validateInvoked(fieldsByPath),
                                        !.awaits = validateInvoked(fieldsByPath)]]
          /\ UNCHANGED calls
  /\ UNCHANGED <<fieldsByPath, formValues, initialValues, originalInitialValues, errorBag,
                 isSubmitting, submitCount, RESET_LOCK, optsInitialValues,
                 keepValuesOnUnmount, hasSchema, ticks, subs, running>>

\* Mutant: the schema is evaluated for one caller at a time.
BatchFire_Each(q, results) ==
  /\ Idle
  /\ \E c \in BatchIds :
       /\ calls[c].st = "queued" /\ QueueOf(calls[c].mode) = q
       /\ calls' = [calls EXCEPT ![c] = [calls[c] EXCEPT !.st = "resolved", !.results = results,
                                                        !.valid = SchemaValid(results)]]
  /\ UNCHANGED <<fieldsByPath, fields, formValues, initialValues, originalInitialValues,
                 errorBag, isSubmitting, submitCount, RESET_LOCK, optsInitialValues,
                 keepValuesOnUnmount, hasSchema, ticks, subs, running, fieldCalls>>

\* A batch's debounce window closes: the schema is evaluated once and every call
\* waiting in the batch gets that result.
BatchFire(q, results) ==
  /\ Idle
  /\ \E c \in BatchIds : calls[c].st = "queued" /\ QueueOf(calls[c].mode) = q
  /\ calls' = [c \in BatchIds |->
                 IF calls[c].st = "queued" /\ QueueOf(calls[c].mode) = q
                 THEN [calls[c] EXCEPT !.st = "resolved", !.results = results,
                                       !.valid = SchemaValid(results)]
                 ELSE calls[c]]
  /\ UNCHANGED <<fieldsByPath, fields, formValues, initialValues, originalInitialValues,
                 errorBag, isSubmitting, submitCount, RESET_LOCK, optsInitialValues,
                 keepValuesOnUnmount, hasSchema, ticks, subs, running, fieldCalls>>

\* The result reaches a caller: it is applied to the fields and the error bag in
\* the caller's mode, and a submission waiting for it goes on.
ApplyResult(c) ==
  /\ Idle
  /\ calls[c].st = "resolved"
  /\ errorBag' = applyResultErrors(calls[c].results, fieldsByPath, fields, errorBag,
                                   calls[c].mode)
  /\ fields' = applyResultFields(calls[c].results, fieldsByPath, fields)
  /\ subs' = [s \in HandlerIds |->
                IF calls[c].owner = s
                THEN [subs[s] EXCEPT !.pc = "validated", !.valid = calls[c].valid,
                        !.errs = resultErrors(calls[c].results, fieldsByPath, errorBag),
                        !.raw = calls[c].results]
                ELSE subs[s]]
  /\ calls' = [calls EXCEPT ![c] = NoCall]
  /\ UNCHANGED <<fieldsByPath, formValues, initialValues, originalInitialValues,
                 isSubmitting, submitCount, RESET_LOCK, optsInitialValues,
                 keepValuesOnUnmount, hasSchema, ticks, running, fieldCalls>>

\* ------------------------------------------------------------------ a field validating itself
\* field.validate(): the field is pending until its validator settles.
FieldValidateStart(f) ==
  /\ Idle
  /\ fields[f].mounted
  /\ ~fields[f].pending
  /\ fields' = fieldValidateStart(fields, f)
  /\ UNCHANGED <<fieldsByPath, formValues, initialValues, originalInitialValues, errorBag,
                 isSubmitting, submitCount, RESET_LOCK, optsInitialValues,
                 keepValuesOnUnmount, hasSchema, ticks, calls, subs, running, fieldCalls>>

\* Mutant: a lookup miss reports an invalid field.
lookupMissResult_Invalid == [valid |-> FALSE, errors |-> <<>>]

\* What validateField returns for a path without a field.
lookupMissResult == [valid |-> TRUE, errors |-> <<>>]

\* validations.every(r => r.valid)
formResultValid(got, invoked) == \A f \in invoked : got[f].msgs = <<>>

\* errors of validate() without a schema: under each field's name the first
\* message of its result, for the results that have messages.
formResultErrors(got, invoked, fs) ==
  {<<fs[f].name, got[f].msgs[1]>> : f \in {g \in invoked : Len(got[g].msgs) > 0}}

\* The validate() of field f settles with `messages`: a call waiting for it takes
\* the result, and returns once it waits for no other field.
fieldCallDeliver(fc, f, messages, fs) ==
  IF fc.st = "waiting" /\ f \in fc.awaits
  THEN LET got == [fc.got EXCEPT ![f] = Bag(messages)]
           awaits == fc.awaits \ {f}
       IN IF awaits # {} THEN [fc EXCEPT !.got = got, !.awaits = awaits]
          ELSE IF fc.kind = "field"
          THEN [fc EXCEPT !.st = "done", !.got = got, !.awaits = awaits,
                          !.valid = (Len(messages) = 0), !.errors = messages]
          ELSE [fc EXCEPT !.st = "done", !.got = got, !.awaits = awaits,
                          !.valid = formResultValid(got, fc.invoked),
                          !.errs = formResultErrors(got, fc.invoked, fs)]
  ELSE fc

\* The validator of a field settles: the field takes the result, and so does
\* every call that waits for it.
FieldValidateFinish(f, messages) ==
  /\ Idle
  /\ fields[f].mounted
  /\ fields[f].pending
  /\ fields' = [fields EXCEPT ![f].pending = FALSE, ![f].valid = (Len(messages) = 0)]
  /\ errorBag' = fieldSetErrors(errorBag, fields[f].name, messages)
  /\ fieldCalls' = [c \in CallIds |-> fieldCallDeliver(fieldCalls[c], f, messages, fields)]
  /\ UNCHANGED <<fieldsByPath, formValues, initialValues, originalInitialValues,
                 isSubmitting, submitCount, RESET_LOCK, optsInitialValues,
                 keepValuesOnUnmount, hasSchema, ticks, calls, subs, running>>

\* validateField(path), called by the user of the form.
ValidateField(c, p) ==
  /\ Idle
  /\ fieldCalls[c].st # "waiting"
  /\ IF ~fieldExists(fieldsByPath, p)
     THEN /\ fieldCalls' = [fieldCalls EXCEPT ![c] =
                              [NoFieldCall EXCEPT !.st = "done", !.path = p,
                                                  !.valid = lookupMissResult.valid,
                                                  !.errors = lookupMissResult.errors]]
          /\ UNCHANGED fields
     ELSE /\ fieldCalls' = [fieldCalls EXCEPT ![c] =
                              [NoFieldCall EXCEPT !.st = "waiting", !.path = p,
                                 !.invoked = validateFieldInvoked(fieldsByPath, p),
                                 !.awaits = {validateFieldReturns(fieldsByPath, p)}]]
          /\ fields' = validateField(fields, fieldsByPath, p)
  /\ UNCHANGED <<fieldsByPath, formValues, initialValues, originalInitialValues, errorBag,
                 isSubmitting, submitCount, RESET_LOCK, optsInitialValues,
                 keepValuesOnUnmount, hasSchema, ticks, calls, subs, running>>

\* ------------------------------------------------------------------ submission
\* submissionHandler(e) begins: every registered path is touched.
\* Mutant: only the first field of each path is touched.
touchAll_FirstOnly(fs, reg) ==
  [f \in FieldIds |->
     IF \E p \in Paths : reg[p].kind # "none" /\ reg[p].m[1] = f
     THEN [fs[f] EXCEPT !.touched = TRUE] ELSE fs[f]]

touchAll(fs, reg) ==
  [f \in FieldIds |->
     IF \E p \in Paths : reg[p].kind # "none" /\ f \in Members(reg[p])
     THEN LET p == CHOOSE q \in Paths : f \in Members(reg[q])
          IN setFieldTouched(fs, reg, p, TRUE)[f]
     ELSE fs[f]]

SubmitTouch(s, hasFn, hasOnInvalid) ==
  /\ Idle
  /\ hasSchema
  /\ subs[s].pc = "idle"
  /\ \E c \in CallIds : calls[c].st = "free"
  /\ fields' = touchAll(fields, fieldsByPath)
  /\ subs' = [subs EXCEPT ![s] = [NoSub EXCEPT !.pc = "touched", !.hasFn = hasFn,
                                               !.hasOnInvalid = hasOnInvalid]]
  /\ running' = s
  /\ UNCHANGED <<fieldsByPath, formValues, initialValues, originalInitialValues, errorBag,
                 isSubmitting, submitCount, RESET_LOCK, optsInitialValues,
                 keepValuesOnUnmount, hasSchema, ticks, calls, fieldCalls>>

\* isSubmitting.value = true; submitCount.value++
SubmitFlag(s) ==
  /\ running = s
  /\ subs[s].pc = "touched"
  /\ isSubmitting' = TRUE
  /\ submitCount' = submitCount + 1
  /\ subs' = [subs EXCEPT ![s].pc = "flagged"]
  /\ UNCHANGED <<fieldsByPath, fields, formValues, initialValues, originalInitialValues,
                 errorBag, RESET_LOCK, optsInitialValues, keepValuesOnUnmount, hasSchema,
                 ticks, calls, running, fieldCalls>>

\* return validate(): the default mode, `force`; the handler's synchronous part ends.
SubmitValidate(s, c) ==
  /\ running = s
  /\ subs[s].pc = "flagged"
  /\ calls[c].st = "free"
  /\ fields' = validateMarks(fields, fieldsByPath, validateMode("undefined"))
  /\ calls' = [calls EXCEPT ![c] = [NoCall EXCEPT !.st = "queued",
                                                  !.mode = validateMode("undefined"),
                                                  !.owner = s]]
  /\ subs' = [subs EXCEPT ![s].pc = "validating"]
  /\ running' = 0
  /\ UNCHANGED <<fieldsByPath, formValues, initialValues, originalInitialValues, errorBag,
                 isSubmitting, submitCount, RESET_LOCK, optsInitialValues,
                 keepValuesOnUnmount, hasSchema, ticks, fieldCalls>>

\* .then(result => ...): the success callback on a valid result, the invalid
\* callback on an invalid one; either may throw.
\* Mutant: the success branch does not return, and the invalid callback is not
\* guarded by the result.
dispatch_FallsThrough(sub, throws) ==
  LET afterFn == IF sub.valid /\ sub.hasFn
                 THEN [sub EXCEPT !.fnCalls = sub.fnCalls + 1] ELSE sub
  IN IF sub.hasOnInvalid
     THEN [afterFn EXCEPT !.pc = "called", !.invalidCalls = sub.invalidCalls + 1,
                          !.invalidErrs = sub.errs, !.fnThrows = throws]
     ELSE [afterFn EXCEPT !.pc = "called", !.fnThrows = throws]

dispatch(sub, throws) ==
  IF sub.valid /\ sub.hasFn
  THEN [sub EXCEPT !.pc = "called", !.fnCalls = sub.fnCalls + 1, !.fnThrows = throws]
  ELSE IF ~sub.valid /\ sub.hasOnInvalid
  THEN [sub EXCEPT !.pc = "called", !.invalidCalls = sub.invalidCalls + 1,
                   !.invalidErrs = sub.errs, !.fnThrows = throws]
  ELSE [sub EXCEPT !.pc = "called"]

SubmitDispatch(s, throws) ==
  /\ Idle
  /\ subs[s].pc = "validated"
  /\ throws => (subs[s].valid /\ subs[s].hasFn) \/ (~subs[s].valid /\ subs[s].hasOnInvalid)
  /\ subs' = [subs EXCEPT ![s] = dispatch(subs[s], throws)]
  /\ UNCHANGED <<fieldsByPath, fields, formValues, initialValues, originalInitialValues,
                 errorBag, isSubmitting, submitCount, RESET_LOCK, optsInitialValues,
                 keepValuesOnUnmount, hasSchema, ticks, calls, running, fieldCalls>>

\* .then(returnVal => ..., err => ...): isSubmitting is reset on both branches,
\* then the value is returned or the failure rethrown.
\* Mutant: the failure branch rethrows without resetting isSubmitting.
settle_ErrKeepsFlag(sub) ==
  IF sub.fnThrows
  THEN [isSubmitting |-> isSubmitting, outcome |-> "rejected"]
  ELSE [isSubmitting |-> FALSE, outcome |-> "resolved"]

settle(sub) ==
  IF sub.fnThrows
  THEN [isSubmitting |-> FALSE, outcome |-> "rejected"]
  ELSE [isSubmitting |-> FALSE, outcome |-> "resolved"]

SubmitSettle(s) ==
  /\ Idle
  /\ subs[s].pc = "called"
  /\ isSubmitting' = settle(subs[s]).isSubmitting
  /\ subs' = [subs EXCEPT ![s].pc = "settled", ![s].outcome = settle(subs[s]).outcome]
  /\ UNCHANGED <<fieldsByPath, fields, formValues, initialValues, originalInitialValues,
                 errorBag, submitCount, RESET_LOCK, optsInitialValues,
                 keepValuesOnUnmount, hasSchema, ticks, calls, running, fieldCalls>>

\* ------------------------------------------------------------------ initial states
ScalarValues == {Sc(x) : x \in Scalars}

\* The trees opts.initialValues is drawn from.
ScalarTrees == [Paths -> ScalarValues \cup {Abs}]

\* useForm(opts): nothing is registered, the value tree and both snapshots are
\* copies of opts.initialValues (the empty tree when none is given), there are no
\* initial errors.
InitForm(given, schema, keepOpt) ==
  /\ fieldsByPath = [p \in Paths |-> NoEntry]
  /\ fields = [f \in FieldIds |-> NoField]
  /\ optsInitialValues \in given
  /\ formValues \in (IF optsInitialValues THEN ScalarTrees ELSE {EmptyTree})
  /\ initialValues = formValues
  /\ originalInitialValues = formValues
  /\ errorBag = [p \in Paths |-> NoBag]
  /\ isSubmitting = FALSE
  /\ submitCount = 0
  /\ RESET_LOCK = FALSE
  /\ keepValuesOnUnmount \in keepOpt
  /\ hasSchema \in schema
  /\ ticks = <<>>
  /\ calls = [c \in BatchIds |-> NoCall]
  /\ subs = [s \in HandlerIds |-> NoSub]
  /\ running = 0
  /\ fieldCalls = [c \in CallIds |-> NoFieldCall]

\* ------------------------------------------------------------------ the value tree and its snapshots
InitValues == InitForm(BOOLEAN, {FALSE}, {FALSE})

NextValues ==
  \/ \E f \in FieldIds, p \in Paths : RegisterField(f, p, "text", "undef", Abs)
  \/ \E p \in Paths, b \in BOOLEAN : SetFieldTouched(p, b)
  \/ \E p \in Paths, v \in ScalarValues : SetFieldValue(p, v, FALSE)
  \/ \E p \in Paths, v \in ScalarValues, u \in BOOLEAN : StageInitialValue(p, v, u)
  \/ \E p \in Paths, v \in ScalarValues : SetFieldInitialValue(p, v)
  \/ \E p \in Paths : UnsetInitialValue(p)
  \/ \E t \in ScalarTrees, u \in BOOLEAN : SetInitialValues(t, u)

SpecValues == InitValues /\ [][NextValues]_vars

\* C1: form meta.dirty is true exactly when the live value tree differs from the
\* `current` initial-values snapshot.
C1_DirtyIffDiffersFromCurrent == isDirty <=> ~isEqual(formValues, initialValues)

\* C2: staging a late field's initial value without updating the original
\* snapshot never turns a clean form dirty.
C2_StageKeepsClean ==
  [][\A p \in Paths, v \in ScalarValues :
       (~isDirty /\ StageInitialValue(p, v, FALSE)) => ~isDirty']_vars


\* ------------------------------------------------------------------ the meta aggregator
\* Field objects are interchangeable: a new one takes the lowest unused slot, and
\* a new call of validate() the lowest free slot.
FreshField == {f \in FieldIds : ~fields[f].mounted /\ \A g \in 1..(f - 1) : fields[g].mounted}
FreshCall == {c \in CallIds : calls[c].st = "free" /\ \A d \in 1..(c - 1) : calls[d].st # "free"}

\* The fields that have registered and not unregistered.
Registered == {f \in FieldIds : fields[f].mounted}

FieldMessages == {<<>>, <<"m1">>}
ErrorArgs == {MsgUndef, MsgStr("m1"), MsgList(<<>>)}

InitMeta == InitForm({FALSE}, {FALSE}, {FALSE})

\* Fields come and go, validate themselves, and the caller sets errors.
NextValid ==
  \/ \E f \in FreshField, p \in Paths : RegisterField(f, p, "text", "undef", Abs)
  \/ \E f \in FieldIds : UnregisterField(f)
  \/ RunTick
  \/ \E f \in FieldIds : FieldValidateStart(f)
  \/ \E f \in FieldIds, m \in FieldMessages : FieldValidateFinish(f, m)
  \/ \E p \in Paths, m \in ErrorArgs : SetFieldError(p, m)

SpecValid == InitMeta /\ [][NextValid]_vars

\* Fields come and go, are touched, and validate themselves successfully.
NextFlags ==
  \/ \E f \in FreshField, p \in Paths : RegisterField(f, p, "text", "undef", Abs)
  \/ \E f \in FieldIds : UnregisterField(f)
  \/ RunTick
  \/ \E p \in Paths, b \in BOOLEAN : SetFieldTouched(p, b)
  \/ \E f \in FieldIds : FieldValidateStart(f)
  \/ \E f \in FieldIds : FieldValidateFinish(f, <<>>)

SpecFlags == InitMeta /\ [][NextFlags]_vars

\* C3: the exposed meta.valid is true exactly when every registered field is
\* valid and no path carries an error message, registered or not.
C3_ValidIffAllValidAndNoError ==
  metaValid <=> /\ \A f \in Registered : fields[f].valid
                /\ \A p \in Paths : errorBag[p].msgs = <<>>

\* C3 witness: every registered field is valid, a path without a field holds an
\* error, and the form is invalid.
C3_Witness ==
  /\ Registered # {}
  /\ \A f \in Registered : fields[f].valid
  /\ \E p \in Paths : /\ \A f \in Registered : fields[f].name # p
                      /\ errorBag[p].msgs # <<>>
  /\ ~metaValid

\* C4: meta.touched is true exactly when some registered field is touched,
\* meta.pending exactly when some registered field is pending; both are false
\* when no field is registered.
C4_TouchedPendingSome ==
  /\ metaTouched <=> \E f \in Registered : fields[f].touched
  /\ metaPending <=> \E f \in Registered : fields[f].pending
  /\ Registered = {} => ~metaTouched /\ ~metaPending

\* C4 witness: a group of two fields, one touched and not pending, the other
\* pending and not touched.
C4_Witness ==
  \E f, g \in Registered :
    /\ f # g
    /\ fields[f].name = fields[g].name
    /\ fields[f].touched /\ ~fields[g].touched
    /\ fields[g].pending /\ ~fields[f].pending
    /\ metaTouched /\ metaPending


\* ------------------------------------------------------------------ the submission pipeline
InitSubmit == InitForm({FALSE}, {TRUE}, {FALSE})

SubmitResults ==
  {[p \in Paths |-> NoBag],
   [p \in Paths |-> IF p = "a" THEN Bag(<<"m2", "m1">>) ELSE Bag(<<>>)],
   [p \in Paths |-> IF p = "a" THEN NoBag ELSE Bag(<<"m1">>)]}

NextSubmit ==
  \/ \E f \in FreshField, p \in Paths : RegisterField(f, p, "text", "undef", Abs)
  \/ \E s \in SubmitIds, hasFn, hasOnInvalid \in BOOLEAN : SubmitTouch(s, hasFn, hasOnInvalid)
  \/ \E s \in SubmitIds : SubmitFlag(s)
  \/ \E s \in SubmitIds, c \in FreshCall : SubmitValidate(s, c)
  \/ \E r \in SubmitResults : BatchFire("live", r)
  \/ \E c \in CallIds : ApplyResult(c)
  \/ \E s \in SubmitIds, throws \in BOOLEAN : SubmitDispatch(s, throws)
  \/ \E s \in SubmitIds : SubmitSettle(s)

SpecSubmit == InitSubmit /\ [][NextSubmit]_vars

\* Promise callbacks run once their promise settles, the debounce timer fires and
\* the schema evaluation settles: every step of a begun submission is taken.
FairSubmit ==
  /\ SpecSubmit
  /\ WF_vars(\E s \in SubmitIds : SubmitFlag(s))
  /\ WF_vars(\E s \in SubmitIds, c \in FreshCall : SubmitValidate(s, c))
  /\ WF_vars(\E r \in SubmitResults : BatchFire("live", r))
  /\ WF_vars(\E c \in CallIds : ApplyResult(c))
  /\ WF_vars(\E s \in SubmitIds, throws \in BOOLEAN : SubmitDispatch(s, throws))
  /\ WF_vars(\E s \in SubmitIds : SubmitSettle(s))

Begun(s) == subs[s].pc \notin {"idle", "settled"}

\* C5: every invocation of a submission handler settles, and the step that
\* settles it leaves isSubmitting false, on the valid branch, the invalid branch
\* and when a callback threw; a thrown failure makes the handler's promise reject.
C5_SettlesAndResets ==
  /\ \A s \in SubmitIds : Begun(s) ~> (subs[s].pc = "settled")
  /\ [][\A s \in SubmitIds :
          (subs[s].pc # "settled" /\ subs'[s].pc = "settled")
            => /\ ~isSubmitting'
               /\ subs'[s].outcome = IF subs[s].fnThrows THEN "rejected" ELSE "resolved"]_vars

\* C5 witness: the success callback threw, the handler rejected and isSubmitting
\* is false again.
C5_Witness ==
  \E s \in SubmitIds :
    /\ subs[s].pc = "settled"
    /\ subs[s].fnCalls = 1 /\ subs[s].fnThrows
    /\ subs[s].outcome = "rejected"
    /\ ~isSubmitting

\* The first message of every path the schema reported messages for.
FirstMessages(raw) == {<<p, raw[p].msgs[1]>> : p \in {q \in Paths : Len(raw[q].msgs) > 0}}

Dispatched(s) == subs[s].pc \in {"called", "settled"}

\* C6: an invocation whose validation reports valid calls the success callback
\* exactly once and never the invalid callback; one whose validation reports
\* invalid calls the invalid callback exactly once, with the first message of
\* every failing path, and never the success callback.
C6_ExactlyOneCallback ==
  \A s \in SubmitIds :
    /\ ~Dispatched(s) => subs[s].fnCalls = 0 /\ subs[s].invalidCalls = 0
    /\ (Dispatched(s) /\ SchemaValid(subs[s].raw))
         => /\ subs[s].invalidCalls = 0
            /\ subs[s].fnCalls = IF subs[s].hasFn THEN 1 ELSE 0
    /\ (Dispatched(s) /\ ~SchemaValid(subs[s].raw))
         => /\ subs[s].fnCalls = 0
            /\ subs[s].invalidCalls = IF subs[s].hasOnInvalid THEN 1 ELSE 0
            /\ subs[s].hasOnInvalid => subs[s].invalidErrs = FirstMessages(subs[s].raw)

\* C6 witness: an invalid result with two messages on one path reached the
\* invalid callback.
C6_Witness ==
  \E s \in SubmitIds :
    /\ subs[s].pc = "settled"
    /\ subs[s].invalidCalls = 1 /\ subs[s].fnCalls = 0
    /\ subs[s].invalidErrs = {<<"a", "m2">>}

AllRegisteredTouched == \A f \in Registered : fields[f].touched

NoCallOf(s) == \A c \in CallIds : calls[c].owner # s

Counted(s) == subs[s].pc \in {"flagged", "validating", "validated", "called", "settled"}

\* C7: inside one submission every registered field is touched first, then
\* isSubmitting is set and submitCount incremented, and only then does force
\* validation start; submitCount counts every invocation exactly once.
C7_SubmitOrder ==
  /\ \A s \in SubmitIds :
       /\ subs[s].pc = "touched" => AllRegisteredTouched /\ NoCallOf(s)
       /\ subs[s].pc = "flagged" => AllRegisteredTouched /\ isSubmitting /\ NoCallOf(s)
       /\ ~NoCallOf(s) => subs[s].pc = "validating"
       /\ subs[s].pc = "validating" /\ ~NoCallOf(s)
            => \A c \in CallIds : calls[c].owner = s => calls[c].mode = "force"
  /\ submitCount = Cardinality({s \in SubmitIds : Counted(s)})

\* C7 witness: fields are registered and touched, the flag is set and the count
\* incremented, and validation has not started.
C7_Witness ==
  \E s \in SubmitIds :
    /\ subs[s].pc = "flagged"
    /\ Cardinality(Registered) = 2
    /\ submitCount = 1
    /\ NoCallOf(s)


\* ------------------------------------------------------------------ schema validation in its modes
InitValidation == InitForm({FALSE}, {TRUE}, {FALSE})

NextValidation ==
  \/ \E f \in FreshField, p \in Paths : RegisterField(f, p, "text", "undef", Abs)
  \/ \E c \in FreshCall, mode \in Modes \cup {"undefined"} : Validate(c, mode)
  \/ \E q \in {"silent", "live"}, r \in SchemaResults : BatchFire(q, r)
  \/ \E c \in CallIds : ApplyResult(c)
  \/ \E f \in FieldIds, m \in FieldMessages : FieldValidateFinish(f, m)

SpecValidation == InitValidation /\ [][NextValidation]_vars

\* The step that applies the result of call c, when c was made in `mode`.
Applies(c, mode) == calls[c].st = "resolved" /\ calls[c].mode = mode /\ calls'[c].st = "free"

\* C8: applying a result in `silent` mode leaves the error state and the
\* validated flag of every registered field as they were, and sets the field's
\* meta.valid to whether the schema reported no message for its path.
C8_SilentKeepsErrors ==
  [][\A c \in CallIds : Applies(c, "silent") =>
       \A f \in Registered :
         /\ errorBag'[fields[f].name] = errorBag[fields[f].name]
         /\ fields'[f].validated = fields[f].validated
         /\ fields'[f].valid = (calls[c].results[fields[f].name].msgs = <<>>)]_vars

\* C8 witness: a silent result with a message for a registered path is about to
\* be applied while the field holds no error and is valid.
C8_Witness ==
  \E c \in CallIds, f \in Registered :
    /\ calls[c].st = "resolved" /\ calls[c].mode = "silent"
    /\ calls[c].results[fields[f].name].msgs # <<>>
    /\ errorBag[fields[f].name].msgs = <<>>
    /\ fields[f].valid

\* C9: applying a result in `validated-only` mode sets the error state of the
\* fields at a path to the schema's messages when some field at the path was
\* validated before, leaves it as it was when none was, and sets meta.valid of
\* every registered field either way.
C9_ValidatedOnly ==
  [][\A c \in CallIds : Applies(c, "validated-only") =>
       \A f \in Registered :
         LET p == fields[f].name
             messages == calls[c].results[p].msgs
             some == \E g \in Registered : fields[g].name = p /\ fields[g].validated
         IN /\ some => errorBag'[p] = Bag(messages)
            /\ ~some => errorBag'[p] = errorBag[p]
            /\ fields'[f].valid = (messages = <<>>)
            /\ fields'[f].validated = fields[f].validated]_vars

\* C9 witness: a validated-only result with messages is about to be applied to a
\* group of one validated and one never-validated field that holds no error.
C9_Witness ==
  \E c \in CallIds, f, g \in Registered :
    /\ calls[c].st = "resolved" /\ calls[c].mode = "validated-only"
    /\ f # g /\ fields[f].name = fields[g].name
    /\ fields[f].validated /\ ~fields[g].validated
    /\ errorBag[fields[f].name].msgs = <<>>
    /\ calls[c].results[fields[f].name].msgs # <<>>

\* C10: a `force` validate() marks every registered field validated in the step
\* that issues it, before any result exists, and applying its result sets the
\* error state of every registered field to the schema's messages for its path.
C10_ForceMarksAndApplies ==
  [][\A c \in CallIds :
       /\ (calls[c].st = "free" /\ calls'[c].st = "queued" /\ calls'[c].mode = "force")
            => \A f \in Registered : fields'[f].validated
       /\ Applies(c, "force")
            => \A f \in Registered :
                 errorBag'[fields[f].name].msgs = calls[c].results[fields[f].name].msgs]_vars

\* C10 witness: a force result is about to replace a registered field's error by
\* the empty list.
C10_Witness ==
  \E c \in CallIds, f \in Registered :
    /\ calls[c].st = "resolved" /\ calls[c].mode = "force"
    /\ fields[f].validated
    /\ errorBag[fields[f].name].msgs # <<>>
    /\ calls[c].results[fields[f].name].msgs = <<>>


\* ------------------------------------------------------------------ errors outside the fields
\* The caller sets errors one path at a time, on registered paths and on paths
\* without a field, and schema results are applied over them.
NextErrors ==
  \/ \E f \in FreshField, p \in Paths : RegisterField(f, p, "text", "undef", Abs)
  \/ \E p \in Paths, m \in ErrorArgs : SetFieldError(p, m)
  \/ \E c \in FreshCall, mode \in Modes : Validate(c, mode)
  \/ \E q \in {"silent", "live"}, r \in SchemaResults : BatchFire(q, r)
  \/ \E c \in CallIds : ApplyResult(c)

SpecErrors == InitValidation /\ [][NextErrors]_vars

\* C11: applying a result, in any mode, overwrites the error-bag entry of every
\* path without a registered field that the result or the error bag has a key
\* for by the schema's messages for it: the path shows in the error map exactly
\* when the schema reported a message for it.
C11_UnregisteredPathsOverwritten ==
  [][\A c \in CallIds :
       (calls[c].st = "resolved" /\ calls'[c].st = "free") =>
         \A p \in Paths :
           (fieldsByPath[p].kind = "none" /\ (calls[c].results[p].has \/ errorBag[p].has))
             => /\ errorBag'[p].msgs = calls[c].results[p].msgs
                /\ p \in errorsKeys(errorBag') <=> calls[c].results[p].msgs # <<>>]_vars

\* C11 witness: a silent result that says nothing about a path without a field
\* is about to be applied while that path holds an error, and the same result
\* has a message for the other path, which has no field either.
C11_Witness ==
  \E c \in CallIds, p, q \in Paths :
    /\ calls[c].st = "resolved" /\ calls[c].mode = "silent"
    /\ fieldsByPath[p].kind = "none" /\ fieldsByPath[q].kind = "none"
    /\ errorBag[p].msgs # <<>> /\ ~calls[c].results[p].has
    /\ errorBag[q].msgs = <<>> /\ calls[c].results[q].msgs # <<>>

\* C12: no entry of the error bag holds an empty message list.
C12_NoEmptyEntry == \A p \in Paths : errorBag[p].has => errorBag[p].msgs # <<>>


\* ------------------------------------------------------------------ validation asked of the fields
\* The results a field validator settles with.
ValidatorMessages == {<<>>, <<"m2", "m1">>}

\* A form without a schema: fields register in singles and groups, the caller
\* validates one path or the whole form, and the validators settle.
NextFieldCalls ==
  \/ \E f \in FreshField, p \in Paths : RegisterField(f, p, "text", "undef", Abs)
  \/ \E c \in CallIds, p \in Paths : ValidateField(c, p)
  \/ \E c \in CallIds : Validate(c, "undefined")
  \/ \E f \in FieldIds, m \in ValidatorMessages : FieldValidateFinish(f, m)

SpecFieldCalls == InitMeta /\ [][NextFieldCalls]_vars

\* The step in which call c is issued as a call of `kind`.
Issues(c, kind) ==
  /\ fieldCalls[c].st # "waiting"
  /\ fieldCalls'[c].st # "free"
  /\ fieldCalls'[c].kind = kind
  /\ fieldCalls'[c] # fieldCalls[c]

\* The first-inserted member of every registered path.
FirstMembers == {f \in Registered : fieldsByPath[fields[f].name].m[1] = f}

\* C13: validateField on a path without a field returns at once, valid and with
\* no errors, and changes neither the registry, the values, the error bag nor
\* any field.
C13_LookupMissIsBenign ==
  [][\A c \in CallIds :
       (Issues(c, "field") /\ ~fieldExists(fieldsByPath, fieldCalls'[c].path))
         => /\ fieldCalls'[c].st = "done"
            /\ fieldCalls'[c].valid /\ fieldCalls'[c].errors = <<>>
            /\ UNCHANGED <<fieldsByPath, fields, formValues, initialValues,
                           originalInitialValues, errorBag>>]_vars

\* C13 witness: validateField has returned for a path without a field while the
\* other path holds a field with an error.
C13_Witness ==
  \E c \in CallIds :
    /\ fieldCalls[c].st = "done" /\ fieldCalls[c].kind = "field"
    /\ ~fieldExists(fieldsByPath, fieldCalls[c].path)
    /\ fieldCalls[c].invoked = {}
    /\ fieldCalls[c].valid /\ fieldCalls[c].errors = <<>>
    /\ \E f \in Registered : errorBag[fields[f].name].msgs # <<>>

\* C14: validateField on a group invokes the validate() of its first member
\* only.
C14_OnlyFirstMemberInvoked ==
  \A c \in CallIds :
    (fieldCalls[c].st = "waiting" /\ fieldCalls[c].kind = "field")
      => fieldCalls[c].invoked = {fieldsByPath[fieldCalls[c].path].m[1]}

\* C15: validate() without a schema asks the first member of every registered
\* path to validate and no other field, returns only once each of them has
\* settled, reports valid exactly when every one of them settled without a
\* message, and reports the first message of exactly the paths that have one.
C15_FormValidateMerges ==
  /\ [][\A c \in CallIds : Issues(c, "form") =>
          /\ fieldCalls'[c].invoked = FirstMembers
          /\ \A f \in FirstMembers : fields'[f].pending
          /\ \A f \in Registered \ FirstMembers : fields'[f].pending = fields[f].pending
          /\ fieldCalls'[c].st = "done" <=> FirstMembers = {}]_vars
  /\ [](\A c \in CallIds :
          (fieldCalls[c].kind = "form" /\ fieldCalls[c].st = "done") =>
            LET fc == fieldCalls[c]
            IN /\ \A f \in fc.invoked : fc.got[f].has
               /\ fc.valid <=> \A f \in fc.invoked : fc.got[f].msgs = <<>>
               /\ \A p \in Paths :
                    LET fs == {f \in fc.invoked : fields[f].name = p}
                    IN /\ Cardinality(fs) <= 1
                       /\ \A m \in Messages :
                            <<p, m>> \in fc.errs
                              <=> \E f \in fs : fc.got[f].msgs # <<>> /\ fc.got[f].msgs[1] = m)

\* C15 witness: the form call returned invalid for a group of two whose first
\* member settled with two messages and whose second member was never asked.
C15_Witness ==
  \E c \in CallIds, f, g \in Registered :
    /\ fieldCalls[c].kind = "form" /\ fieldCalls[c].st = "done"
    /\ f # g /\ fields[f].name = fields[g].name
    /\ fieldCalls[c].invoked = {f}
    /\ fieldCalls[c].got[f].msgs = <<"m2", "m1">>
    /\ ~fields[g].pending /\ fields[g].valid
    /\ ~fieldCalls[c].valid
    /\ fieldCalls[c].errs = {<<fields[f].name, "m2">>}


\* ------------------------------------------------------------------ the registry under register, unregister and rename
\* Fields register, change their name and unregister.
NextRegistry ==
  \/ \E f \in FreshField, p \in Paths : RegisterField(f, p, "text", "undef", Abs)
  \/ \E f \in FieldIds : UnregisterField(f)
  \/ \E f \in FieldIds, p \in Paths : RenameField(f, p)
  \/ RunTick

\* With or without initial values, keeping the values of unmounted fields or not.
InitRegistry == InitForm(BOOLEAN, {FALSE}, BOOLEAN)

SpecRegistry == InitRegistry /\ [][NextRegistry]_vars

\* Fields register, validate themselves and change their name.
NextRename ==
  \/ \E f \in FreshField, p \in Paths : RegisterField(f, p, "text", "undef", Abs)
  \/ \E f \in FieldIds, p \in Paths : RenameField(f, p)
  \/ RunTick
  \/ \E f \in FieldIds : FieldValidateStart(f)
  \/ \E f \in FieldIds, m \in FieldMessages : FieldValidateFinish(f, m)

SpecRename == InitMeta /\ [][NextRename]_vars

\* C16: no path maps to an empty group, a path has no entry exactly when no
\* field is left at it, an entry that is a group stays a group as long as it has
\* a member, and an entry goes only when its last member is removed.
C16_GroupsStayGroups ==
  /\ [](\A p \in Paths :
          /\ fieldsByPath[p].kind = "none" <=> Len(fieldsByPath[p].m) = 0
          /\ fieldsByPath[p].kind = "single" => Len(fieldsByPath[p].m) = 1)
  /\ [][\A p \in Paths :
          /\ (fieldsByPath[p].kind = "group" /\ fieldsByPath'[p].kind # "none")
               => fieldsByPath'[p].kind = "group"
          /\ (fieldsByPath[p].kind # "none" /\ fieldsByPath'[p].kind = "none")
               => Len(fieldsByPath[p].m) = 1]_vars

\* C16 witness: a group that lost a member to a rename and is left with one.
C16_Witness ==
  \E i \in 1..Len(ticks) :
    /\ ticks[i].kind = "renamed"
    /\ fieldsByPath[ticks[i].oldPath].kind = "group"
    /\ Len(fieldsByPath[ticks[i].oldPath].m) = 1

\* The step in which the watcher at the head of the queue moves its field away
\* from a path that holds an error.
RenameWithError(t) ==
  /\ Len(ticks) > 0 /\ t = Head(ticks)
  /\ t.kind = "rename"
  /\ t.oldPath \in errorsKeys(errorBag)
  /\ Len(ticks') > 0
  /\ ticks'[Len(ticks')].kind = "renamed" /\ ticks'[Len(ticks')].f = t.f

\* C17 as stated: once a watcher that found an error at the old path has moved
\* its field and the validation it started has completed, the old path has no
\* error, the new path reports one, and the field is registered at the new
\* path only.
C17_ErrorMoves ==
  \A i \in 1..Len(ticks) :
    LET t == ticks[i] IN
    (t.kind = "renamed" /\ t.oldError /\ ~fields[t.f].pending /\ fields[t.f].name = t.name)
      => /\ t.oldPath \notin errorsKeys(errorBag)
         /\ t.name \in errorsKeys(errorBag)
         /\ t.f \in Members(fieldsByPath[t.name])
         /\ t.f \notin Members(fieldsByPath[t.oldPath])

\* C17 amended: the watcher that finds an error at the old path moves its field
\* to the new path, removes the old path's error and starts the validation of
\* the new path; the step that completes a field's validation leaves an error
\* at the field's path exactly when that validation failed; the second part of
\* the watcher changes neither the registry nor the errors.
C17_ErrorRevalidated ==
  /\ [][\A t \in {ticks[i] : i \in 1..Len(ticks)} :
          RenameWithError(t) =>
            /\ t.f \in Members(fieldsByPath'[t.name])
            /\ t.f \notin Members(fieldsByPath'[t.oldPath])
            /\ ~errorBag'[t.oldPath].has
            /\ fields'[t.f].pending]_vars
  /\ [][\A f \in Registered :
          (fields[f].pending /\ fields'[f].mounted /\ ~fields'[f].pending)
            => (fields[f].name \in errorsKeys(errorBag') <=> ~fields'[f].valid)]_vars
  /\ [][(Len(ticks) > 0 /\ Head(ticks).kind = "renamed" /\ ticks' = Tail(ticks))
          => UNCHANGED <<fieldsByPath, fields, errorBag>>]_vars

\* C17 witness: the watcher found an error at the old path, the field is at the
\* new path, its validation has completed without a message, and neither path
\* holds an error.
C17_Witness ==
  \E i \in 1..Len(ticks) :
    LET t == ticks[i] IN
    /\ t.kind = "renamed" /\ t.oldError
    /\ ~fields[t.f].pending /\ fields[t.f].valid
    /\ t.f \in Members(fieldsByPath[t.name])
    /\ t.oldPath \notin errorsKeys(errorBag)
    /\ t.name \notin errorsKeys(errorBag)


\* ------------------------------------------------------------------ resetting the form
\* Checkboxes whose checked value is "red" at path a, text fields at path b.
FieldKinds == {<<"a", "checkbox", Sc("red")>>, <<"b", "text", Abs>>}

\* The values resetForm({values}) is given.
ResetTrees ==
  {[p \in Paths |-> IF p = "a" THEN Sc("blue") ELSE Abs],
   [p \in Paths |-> IF p = "a" THEN Arr(<<"red">>) ELSE Sc("red")]}

\* The form starts without initial values or with {a: "red"}.
InitReset ==
  /\ InitForm(BOOLEAN, {TRUE}, {FALSE})
  /\ formValues["a"] \in {Abs, Sc("red")}
  /\ formValues["b"] = Abs

\* Fields mount late and stage their initial values, values and errors are set,
\* the form is submitted, and it is reset.
NextReset ==
  \/ \E f \in FreshField, k \in FieldKinds : RegisterField(f, k[1], k[2], "undef", k[3])
  \/ \E p \in Paths : SetFieldValue(p, Sc("blue"), FALSE)
  \/ StageInitialValue("b", Sc("blue"), FALSE)
  \/ SetFieldError("b", MsgStr("m1"))
  \/ \E s \in SubmitIds : SubmitTouch(s, TRUE, FALSE)
  \/ \E s \in SubmitIds : SubmitFlag(s)
  \/ \E s \in SubmitIds, c \in FreshCall : SubmitValidate(s, c)
  \/ ResetForm(FALSE, EmptyTree)
  \/ \E v \in ResetTrees : ResetForm(TRUE, v)
  \/ RunTick

SpecReset == InitReset /\ [][NextReset]_vars

\* What a resetForm() would leave if it were called in the state the step ends
\* in is what the state already holds.
ResetAgainChangesNothing ==
  /\ formValues' = (resetValues(fieldsByPath, resetFields(fields, fieldsByPath),
                                resetNewValues(FALSE, EmptyTree)))'
  /\ initialValues' = (resetNewValues(FALSE, EmptyTree))'
  /\ originalInitialValues' = (resetNewValues(FALSE, EmptyTree))'
  /\ fields' = (resetFields(fields, fieldsByPath))'
  /\ errorBag' = setErrors([p \in Paths |-> MsgUndef])
  /\ submitCount' = 0

\* C18: a second resetForm() right after a resetForm() changes neither the
\* values, the two snapshots, the error bag, submitCount nor the fields' meta
\* (and so none of the form's meta flags).
C18_ResetIdempotent ==
  [][ResetForm(FALSE, EmptyTree) => ResetAgainChangesNothing]_vars

\* C18 witness: a reset has just run on a form with a checkbox group, a touched
\* and submitted past, and a `current` snapshot that differs from the original.
C18_Witness ==
  /\ RESET_LOCK
  /\ submitCount = 0
  /\ \E s \in SubmitIds : subs[s].pc = "validating"
  /\ \E p \in Paths : /\ fieldsByPath[p].kind = "group"
                      /\ fields[fieldsByPath[p].m[1]].type = "checkbox"
                      /\ formValues[p].k = "arr"
  /\ initialValues = originalInitialValues
  /\ \A p \in Paths : ~errorBag[p].has

\* C19: resetForm() leaves the value tree and the `current` snapshot equal to
\* the `original` snapshot, which it does not change, the error bag empty,
\* submitCount 0 and the form not dirty; resetForm({values: V}) leaves the value
\* tree and both snapshots equal to V.
C19_ResetReplaysOriginal ==
  [][/\ ResetForm(FALSE, EmptyTree)
          => /\ originalInitialValues' = originalInitialValues
             /\ initialValues' = originalInitialValues
             /\ formValues' = originalInitialValues
             /\ \A p \in Paths : ~errorBag'[p].has
             /\ submitCount' = 0
             /\ ~isDirty'
      /\ \A v \in ResetTrees :
           ResetForm(TRUE, v)
             => /\ formValues' = v
                /\ initialValues' = v
                /\ originalInitialValues' = v]_vars


\* ------------------------------------------------------------------ setting one value
\* Text fields and checkboxes, at any path, alone or in groups.
AnyFieldKinds == {<<"text", Abs>>, <<"checkbox", Sc("red")>>}

\* The values setFieldValue is given: scalars and a list.
GivenValues == ScalarValues \cup {Arr(<<"red">>)}

InitSetValue ==
  /\ InitForm(BOOLEAN, {FALSE}, {FALSE})
  /\ formValues["b"] = Abs

\* Fields register, values are set with and without force, and the form is
\* reset, which holds the reset lock until the next tick.
NextSetValue ==
  \/ \E f \in FreshField, p \in Paths, k \in AnyFieldKinds :
       RegisterField(f, p, k[1], "undef", k[2])
  \/ \E p \in Paths, v \in GivenValues, force \in BOOLEAN : SetFieldValue(p, v, force)
  \/ ResetForm(FALSE, EmptyTree)
  \/ RunTick

SpecSetValue == InitSetValue /\ [][NextSetValue]_vars

\* No field at the path is a checkbox: the path has no field, or text fields only.
NoCheckboxAt(p) == \A f \in Members(fieldsByPath[p]) : fields[f].type # "checkbox"

\* C20: setFieldValue(P, v) on a path without a field, or whose fields are not
\* checkboxes, leaves v at P and every other path of the value tree as it was.
C20_SetFieldValueSetsPath ==
  [][\A p \in Paths, v \in GivenValues, force \in BOOLEAN :
       (SetFieldValue(p, v, force) /\ NoCheckboxAt(p))
         => /\ getFromPath(formValues', p) = v
            /\ \A q \in Paths \ {p} : getFromPath(formValues', q) = getFromPath(formValues, q)]_vars

\* C20 witness: a text field holds the value it was given a second time in a
\* row, where a checkbox would have toggled it off, while the other path holds
\* the list a checkbox group built.
C20_Witness ==
  \E p, q \in Paths :
    /\ fieldsByPath[p].kind = "single"
    /\ fields[fieldsByPath[p].m[1]].type = "text"
    /\ formValues[p] = Sc("red")
    /\ fieldsByPath[q].kind # "none"
    /\ fields[fieldsByPath[q].m[1]].type = "checkbox"
    /\ formValues[q].k = "arr"
    /\ ~RESET_LOCK

\* ------------------------------------------------------------------ C21
\* The path's fields are a group of checkboxes.
CheckboxGroupAt(p) ==
  /\ isFieldGroup(fieldsByPath[p])
  /\ fields[fieldsByPath[p].m[1]].type = "checkbox"

\* The list at a path: the array it holds, the empty list when it holds nothing.
ListAt(tree, p) == IF tree[p].k = "arr" THEN tree[p].s ELSE <<>>

\* C21: for a group of checkboxes at a path that holds an array (or nothing),
\* setFieldValue(path, x) with a scalar x appends x to the array when x is not
\* in it, keeping the earlier elements in their order, and removes one
\* occurrence of x when it is, keeping the other elements in place; this holds
\* with and without force and while the reset lock is held.
C21_GroupToggles ==
  [][\A p \in Paths, v \in ScalarValues, force \in BOOLEAN :
       (SetFieldValue(p, v, force) /\ CheckboxGroupAt(p) /\ formValues[p].k # "sc")
         => LET old == ListAt(formValues, p)
                x == v.s[1]
            IN /\ formValues'[p].k = "arr"
               /\ IF \E i \in 1..Len(old) : old[i] = x
                  THEN \E i \in 1..Len(old) :
                         old[i] = x /\ formValues'[p].s = SeqWithout(old, i)
                  ELSE formValues'[p].s = Append(old, x)]_vars

\* C21 witness: a group of two checkboxes whose path holds ["blue"] after both
\* values were checked in the order red, blue and red was unchecked.
C21_Witness ==
  \E p \in Paths :
    /\ CheckboxGroupAt(p)
    /\ Len(fieldsByPath[p].m) = 2
    /\ formValues[p] = Arr(<<"blue">>)

\* ------------------------------------------------------------------ C22
\* Text fields register alone or into groups, are touched and edited, and the
\* initial values are replaced with and without updating the fields.
NextInitialValues ==
  \/ \E f \in FreshField, p \in Paths : RegisterField(f, p, "text", "undef", Abs)
  \/ \E p \in Paths : SetFieldTouched(p, TRUE)
  \/ \E p \in Paths : SetFieldValue(p, Sc("red"), FALSE)
  \/ \E t \in ScalarTrees, u \in BOOLEAN : SetInitialValues(t, u)

SpecInitialValues == InitValues /\ [][NextInitialValues]_vars

\* C22: setInitialValues(values, updateFields) makes both snapshots equal to
\* values; with updateFields it sets the live value of every registered path
\* without a touched field to the new initial value of that path and leaves the
\* live value of every path with a touched field (any member of a group) as it
\* was; without updateFields the live value tree is not changed.
C22_SetInitialValuesFrame ==
  [][\A t \in ScalarTrees, u \in BOOLEAN :
       SetInitialValues(t, u)
         => /\ initialValues' = t
            /\ originalInitialValues' = t
            /\ ~u => formValues' = formValues
            /\ u => \A p \in Paths :
                      fieldExists(fieldsByPath, p)
                        => IF \E f \in Members(fieldsByPath[p]) : fields[f].touched
                           THEN formValues'[p] = formValues[p]
                           ELSE formValues'[p] = getFromPath(t, p)]_vars

\* C22 witness: a form created without initial values whose snapshots both
\* hold new values; the path of a touched field kept its own live value, the
\* path of an untouched field took the new initial value.
C22_Witness ==
  \E p, q \in Paths :
    /\ ~optsInitialValues
    /\ initialValues = originalInitialValues
    /\ fieldsByPath[p].kind = "single"
    /\ fields[fieldsByPath[p].m[1]].touched
    /\ initialValues[p] = Sc("blue")
    /\ formValues[p] = Sc("red")
    /\ fieldsByPath[q].kind = "single"
    /\ ~fields[fieldsByPath[q].m[1]].touched
    /\ initialValues[q] = Sc("blue")
    /\ formValues[q] = Sc("blue")

\* ------------------------------------------------------------------ C23
\* The fields that come and go: checkboxes with their own checked value and
\* their own keep-value setting (none, keep, do not keep).
CleanupKinds ==
  {<<"undef", Sc("red")>>, <<"true", Sc("blue")>>, <<"false", Sc("blue")>>}

\* A form without initial values, keeping the values of unmounted fields or not.
InitCleanup == InitForm({FALSE}, {FALSE}, BOOLEAN)

\* Checkboxes register at one path, alone or into a group, are checked and
\* unchecked, get an error, and unregister; the clean-up runs at the next tick,
\* before or after another field has registered at the path.
NextCleanup ==
  \/ \E f \in FreshField, k \in CleanupKinds : RegisterField(f, "a", "checkbox", k[1], k[2])
  \/ \E v \in ScalarValues : SetFieldValue("a", v, FALSE)
  \/ SetFieldError("a", MsgStr("m1"))
  \/ \E f \in FieldIds : UnregisterField(f)
  \/ RunTick

SpecCleanup == InitCleanup /\ [][NextCleanup]_vars

\* The step in which the clean-up of an unregistered field runs and finds no
\* field at the path.
CleanupOfEmptyPath ==
  /\ RunTick
  /\ Head(ticks).kind = "cleanup"
  /\ ~fieldExists(fieldsByPath, Head(ticks).name)

\* The keep-value setting in effect: the field's own when it has one, the
\* form's otherwise.
EffectiveKeep(t) == IF t.keep \in {"true", "false"} THEN t.keep = "true" ELSE keepValuesOnUnmount

\* What the clean-up of tick t leaves at its path: no error, and the value as
\* it was when the setting in effect says keep, no value otherwise.
CleanedUp(t) ==
  /\ errorBag'[t.name] = NoBag
  /\ formValues'[t.name] = IF EffectiveKeep(t) THEN formValues[t.name] ELSE Abs

FreshCaller ==
  {c \in BatchIds : calls[c].st = "free" /\ \A d \in 1..(c - 1) : calls[d].st # "free"}

\* Several calls of validate() wait at the same time, silent ones and live ones;
\* each queue's window closes on its own and every caller applies the result it
\* got.  Fields register at one path, the other path stays without a field.
NextBatch ==
  \/ \E f \in FreshField : RegisterField(f, "a", "text", "undef", Abs)
  \/ \E c \in FreshCaller, mode \in {"silent", "force"} : Validate(c, mode)
  \/ \E q \in {"silent", "live"}, r \in SchemaResults : BatchFire(q, r)
  \/ \E c \in BatchIds : ApplyResult(c)

SpecBatch == InitValidation /\ [][NextBatch]_vars

\* Call c waits in its window and this step hands it the result of an evaluation.
Resolves(c) == calls[c].st = "queued" /\ calls'[c].st = "resolved"

\* The step that applies the result call c got.
AppliesResult(c) == calls[c].st = "resolved" /\ calls'[c].st = "free"

\* C24: a silent request and a live request (a force request here) that wait
\* in the same debounce window never merge nor suppress one another: the
\* evaluation that resolves the one leaves the other waiting, a request keeps
\* its mode until its result is applied, the result of a force request becomes
\* the error state of every registered path, and applying the result of a
\* silent request leaves the error state of every registered path as it was.
C24_SilentAndLiveApart ==
  [][\A c \in BatchIds :
       /\ (calls[c].st # "free" /\ ~AppliesResult(c)) => calls'[c].mode = calls[c].mode
       /\ \A d \in BatchIds :
            (Resolves(c) /\ calls[d].st = "queued"
               /\ (calls[c].mode = "silent") # (calls[d].mode = "silent"))
              => calls'[d] = calls[d]
       /\ (AppliesResult(c) /\ calls[c].mode = "force")
            => \A p \in Paths : fieldExists(fieldsByPath, p)
                 => errorBag'[p] = Bag(calls[c].results[p].msgs)
       /\ (AppliesResult(c) /\ calls[c].mode = "silent")
            => \A p \in Paths : fieldExists(fieldsByPath, p) => errorBag'[p] = errorBag[p]]_vars

\* C24 witness: a silent and a force request were made in the same window; the
\* live evaluation found a message for a registered path that holds no error
\* yet, and the silent request is still waiting for its own evaluation.
C24_Witness ==
  \E c, d \in BatchIds, p \in Paths :
    /\ calls[c].st = "queued" /\ calls[c].mode = "silent"
    /\ calls[d].st = "resolved" /\ calls[d].mode = "force"
    /\ fieldExists(fieldsByPath, p)
    /\ calls[d].results[p].msgs # <<>>
    /\ errorBag[p] = NoBag

\* C25: the requests of one mode that wait in the same debounce window are
\* resolved by one schema evaluation: the step that resolves one of them
\* resolves all of them, with the same result.
C25_OneEvaluationPerWindow ==
  [][\A c, d \in BatchIds :
       (Resolves(c) /\ calls[d].st = "queued" /\ calls[d].mode = calls[c].mode)
         => /\ calls'[d].st = "resolved"
            /\ calls'[d].results = calls'[c].results
            /\ calls'[d].valid = calls'[c].valid]_vars

\* C25 witness: two force requests of one window hold the same result, with a
\* message, and neither has applied it yet.
C25_Witness ==
  \E c, d \in BatchIds :
    /\ c # d
    /\ calls[c].st = "resolved" /\ calls[d].st = "resolved"
    /\ calls[c].mode = "force" /\ calls[d].mode = "force"
    /\ calls[c].results = calls[d].results
    /\ ~calls[c].valid

\* ------------------------------------------------------------------ C26
\* A call that waits for field f when the promise of f's validate() rejects:
\* neither validate() (Promise.all) nor validateField() (the promise itself is
\* returned) catches, so the call's promise rejects as well.
fieldCallFail(fc, f) ==
  IF fc.st = "waiting" /\ f \in fc.awaits THEN [fc EXCEPT !.st = "failed", !.awaits = {}] ELSE fc

\* The validator of a field fails instead of settling with messages: the
\* promise of field.validate() rejects.  Whether the field is still pending
\* afterwards is left open.
FieldValidateFails(f) ==
  /\ Idle
  /\ fields[f].mounted
  /\ fields[f].pending
  /\ \E stays \in BOOLEAN : fields' = [fields EXCEPT ![f].pending = stays]
  /\ fieldCalls' = [c \in CallIds |-> fieldCallFail(fieldCalls[c], f)]
  /\ UNCHANGED <<fieldsByPath, formValues, initialValues, originalInitialValues, errorBag,
                 isSubmitting, submitCount, RESET_LOCK, optsInitialValues,
                 keepValuesOnUnmount, hasSchema, ticks, calls, subs, running>>

\* Fields validate themselves on behalf of validate() and validateField(); a
\* validator settles with messages or fails.
NextFailures ==
  \/ \E f \in FreshField, p \in Paths : RegisterField(f, p, "text", "undef", Abs)
  \/ \E c \in CallIds, p \in Paths : ValidateField(c, p)
  \/ \E c \in CallIds : Validate(c, "undefined")
  \/ \E f \in FieldIds, m \in ValidatorMessages : FieldValidateFinish(f, m)
  \/ \E f \in FieldIds : FieldValidateFails(f)

SpecFailures == InitMeta /\ [][NextFailures]_vars

\* C26: validate() and validateField() never fail: whatever the validators of
\* the fields do, a validator that fails included, no call ends rejected.
C26_ValidateNeverFails == \A c \in CallIds : fieldCalls[c].st # "failed"

\* ------------------------------------------------------------------ C27
\* The trees given to setInitialValues, setValues and resetForm.
NewTrees == {[p \in Paths |-> IF p = "a" THEN Sc("red") ELSE Abs]}

\* A form created without initial values, or with one for path a.
InitOriginal ==
  /\ InitForm(BOOLEAN, {FALSE}, {FALSE})
  /\ formValues["a"] \in {Abs, Sc("blue")}
  /\ formValues["b"] = Abs

\* Everything that writes a value or an initial value: fields mount and
\* unmount at path a, initial values are staged at either path, set and unset,
\* values are set, the initial values are replaced and the form is reset, with
\* and without values.
NextOriginal ==
  \/ \E f \in FreshField : RegisterField(f, "a", "text", "undef", Abs)
  \/ \E f \in FieldIds : UnregisterField(f)
  \/ RunTick
  \/ \E p \in Paths, u \in BOOLEAN : StageInitialValue(p, Sc("blue"), u)
  \/ SetFieldInitialValue("b", Sc("red"))
  \/ UnsetInitialValue("a")
  \/ SetFieldValue("a", Sc("red"), FALSE)
  \/ \E t \in NewTrees : SetValues(t)
  \/ \E t \in NewTrees, u \in BOOLEAN : SetInitialValues(t, u)
  \/ ResetForm(FALSE, EmptyTree)
  \/ \E t \in NewTrees : ResetForm(TRUE, t)

SpecOriginal == InitOriginal /\ [][NextOriginal]_vars

\* The step is an explicit setInitialValues or a resetForm with new values.
ExplicitChange ==
  \/ \E t \in NewTrees, u \in BOOLEAN : SetInitialValues(t, u)
  \/ \E t \in NewTrees : ResetForm(TRUE, t)

CleanupAfterRegistration ==
  /\ RunTick
  /\ Head(ticks).kind = "cleanup"
  /\ fieldExists(fieldsByPath, Head(ticks).name)
  /\ ~Head(ticks).isGroup \/ ~Head(ticks).same

\* C28: when another field registers at the path of an unregistered field
\* before the deferred clean-up runs, the clean-up leaves the value and the
\* error of the path as they are.
C28_ReRegistrationKeepsValue ==
  [][CleanupAfterRegistration
       => /\ formValues'[Head(ticks).name] = formValues[Head(ticks).name]
          /\ errorBag'[Head(ticks).name] = errorBag[Head(ticks).name]]_vars

\* C28 witness: a field that does not keep its value left a path of its own,
\* another field registered there, and the clean-up is about to run while the
\* path holds a value and an error.
C28_Witness ==
  /\ Len(ticks) > 0
  /\ Head(ticks).kind = "cleanup"
  /\ ~Head(ticks).isGroup
  /\ ~EffectiveKeep(Head(ticks))
  /\ fieldsByPath[Head(ticks).name].kind = "single"
  /\ formValues[Head(ticks).name] # Abs
  /\ Head(ticks).name \in errorsKeys(errorBag)

\* ------------------------------------------------------------------ C29
\* C29: the first deferred step of a rename leaves the value tree as it is; the
\* second one removes the value at the old path when no field is registered
\* there at that moment and leaves the value tree as it is when a field is.
C29_OldPathUnsetWhenVacant ==
  [][RunTick =>
       /\ Head(ticks).kind = "rename" => formValues' = formValues
       /\ Head(ticks).kind = "renamed" =>
            formValues' = IF \E f \in Registered : f \in Members(fieldsByPath[Head(ticks).oldPath])
                          THEN formValues
                          ELSE [formValues EXCEPT ![Head(ticks).oldPath] = Abs]]_vars

\* C29 witness: a field moved away from a path that holds a value, another
\* field registered at the old path, and the second step is about to run.
C29_Witness ==
  /\ Len(ticks) > 0
  /\ Head(ticks).kind = "renamed"
  /\ fieldsByPath[Head(ticks).oldPath].kind = "single"
  /\ Head(ticks).f \notin Members(fieldsByPath[Head(ticks).oldPath])
  /\ formValues[Head(ticks).oldPath] # Abs

\* ------------------------------------------------------------------ C30
\* The step in which the clean-up of a member that left its group runs while
\* the other members of that group are still registered, the member does not
\* keep its value and the path holds an array.
CleanupOfGroupMember ==
  /\ RunTick
  /\ Head(ticks).kind = "cleanup"
  /\ Head(ticks).isGroup /\ Head(ticks).same
  /\ fieldExists(fieldsByPath, Head(ticks).name)
  /\ ~EffectiveKeep(Head(ticks))
  /\ formValues[Head(ticks).name].k = "arr"

\* C30: the clean-up of a group member removes one occurrence of the member's
\* checked value from the path's array (none when the array does not hold it),
\* leaves the other elements in their order, and leaves the path in the value
\* tree and the path's error in place.
C30_MemberCleanupPrunesOne ==
  [][CleanupOfGroupMember =>
       LET p == Head(ticks).name
           old == formValues[p].s
           x == Head(ticks).checkedValue.s[1]
       IN /\ formValues'[p].k = "arr"
          /\ IF \E i \in 1..Len(old) : old[i] = x
             THEN \E i \in 1..Len(old) : old[i] = x /\ formValues'[p].s = SeqWithout(old, i)
             ELSE formValues'[p].s = old
          /\ errorBag'[p] = errorBag[p]
          /\ fieldsByPath'[p] = fieldsByPath[p]]_vars

\* C30 witness: the member checked for "blue" left a group whose path holds
\* ["red", "blue"] and an error; the other member is still registered and the
\* clean-up is about to run.
C30_Witness ==
  /\ Len(ticks) > 0
  /\ Head(ticks).kind = "cleanup"
  /\ Head(ticks).isGroup /\ Head(ticks).same
  /\ ~EffectiveKeep(Head(ticks))
  /\ Head(ticks).checkedValue = Sc("blue")
  /\ fieldExists(fieldsByPath, Head(ticks).name)
  /\ formValues[Head(ticks).name] = Arr(<<"red", "blue">>)
  /\ Head(ticks).name \in errorsKeys(errorBag)

\* ------------------------------------------------------------------ C31
\* C31: when the last member of a group is unregistered without keeping its
\* value and the array at the path holds that member's checked value only, the
\* clean-up removes the path from the value tree: no empty array stays behind.
C31_EmptyGroupPathRemoved ==
  [][(/\ CleanupOfEmptyPath
      /\ Head(ticks).isGroup /\ Head(ticks).alone
      /\ ~EffectiveKeep(Head(ticks))
      /\ formValues[Head(ticks).name] = Arr(<<Head(ticks).checkedValue.s[1]>>))
       => formValues'[Head(ticks).name] = Abs]_vars

\* ------------------------------------------------------------------ C33
\* The handler is invoked again while an earlier invocation waits for its
\* validation or for its callback: the invocations overlap and settle in any
\* order.
NextOverlap ==
  \/ \E f \in FreshField : RegisterField(f, "a", "text", "undef", Abs)
  \/ \E s \in HandlerIds : SubmitTouch(s, TRUE, FALSE)
  \/ \E s \in HandlerIds : SubmitFlag(s)
  \/ \E s \in HandlerIds, c \in FreshCall : SubmitValidate(s, c)
  \/ \E r \in SubmitResults : BatchFire("live", r)
  \/ \E c \in CallIds : ApplyResult(c)
  \/ \E s \in HandlerIds, throws \in BOOLEAN : SubmitDispatch(s, throws)
  \/ \E s \in HandlerIds : SubmitSettle(s)

SpecOverlap == InitSubmit /\ [][NextOverlap]_vars

\* The invocation has set the flag and has not settled.
InFlight(s) == subs[s].pc \in {"flagged", "validating", "validated", "called"}

\* C33: isSubmitting is true whenever an invocation of the submission handler
\* has started and has not settled, also when two invocations overlap and one
\* of them settles first.
C33_SubmittingWhileInFlight == (\E s \in HandlerIds : InFlight(s)) => isSubmitting

\* ------------------------------------------------------------------ C34
\* unregisterField(field) while the watcher of the field's name still waits for
\* one of its ticks: the field's name is the new path already, so the field is
\* looked up and removed there, and the clean-up queues behind the watcher.
UnregisterRenaming(f) ==
  /\ Idle
  /\ fields[f].mounted
  /\ Renaming(f)
  /\ Len(ticks) <= MaxTicks
  /\ LET fieldName == fields[f].name
         fieldInstance == fieldsByPath[fieldName]
         isGroup == fieldInstance.kind # "none" /\ isFieldGroup(fieldInstance)
     IN /\ fieldsByPath' = removeFieldFromPath(fieldsByPath, f, fieldName)
        /\ ticks' = Append(ticks, CleanupTick(f, fieldName, isGroup))
  /\ fields' = [fields EXCEPT ![f] = NoField]
  /\ UNCHANGED <<formValues, initialValues, originalInitialValues, errorBag, isSubmitting,
                 submitCount, RESET_LOCK, optsInitialValues, keepValuesOnUnmount, hasSchema,
                 calls, subs, running, fieldCalls>>

\* Fields register, change their name and unregister, also between the two
\* ticks of their rename.
NextUnmount ==
  \/ \E f \in FreshField, p \in Paths : RegisterField(f, p, "text", "undef", Abs)
  \/ \E f \in FieldIds, p \in Paths : RenameField(f, p)
  \/ \E f \in FieldIds : UnregisterField(f)
  \/ \E f \in FieldIds : UnregisterRenaming(f)
  \/ RunTick

InitUnmount == InitForm({FALSE}, {FALSE}, {FALSE})

SpecUnmount == InitUnmount /\ [][NextUnmount]_vars

\* C34: once every deferred task has run, a field that was unregistered is
\* under no path of the registry, also when it was unregistered while its
\* rename was still waiting for a tick.
C34_UnregisteredFieldIsGone ==
  ticks = <<>> => \A f \in FieldIds : ~fields[f].mounted => f \notin RegistryFields(fieldsByPath)

\* ------------------------------------------------------------------ C35
\* The ticks run as long as one waits.
FairSetValue == SpecSetValue /\ WF_vars(RunTick)

\* One checkbox, not a group, is registered at the path.
SingleCheckboxAt(p) ==
  /\ fieldsByPath[p].kind # "none"
  /\ ~isFieldGroup(fieldsByPath[p])
  /\ fields[fieldsByPath[p].m[1]].type = "checkbox"

\* The callback that releases the lock waits in the queue.
UnlockQueued(q) == \E i \in 1..Len(q) : q[i].kind = "unlock"

\* resetForm takes the lock and leaves the callback that releases it; the
\* callback releases it; a held lock is released in the end.
LockIsReleased ==
  /\ [][ResetForm(FALSE, EmptyTree) => (RESET_LOCK' /\ UnlockQueued(ticks'))]_vars
  /\ [](RESET_LOCK => UnlockQueued(ticks))
  /\ [][(RunTick /\ Head(ticks).kind = "unlock") => ~RESET_LOCK']_vars
  /\ (RESET_LOCK ~> ~RESET_LOCK)

\* What the claim says setFieldValue(path, v, {force}) leaves at the path of a
\* single checkbox.
SingleCheckboxWrite(p, v, force) ==
  IF force \/ RESET_LOCK THEN v
  ELSE IF isEqual(formValues[p], v) THEN fields[fieldsByPath[p].m[1]].uncheckedValue
  ELSE v

\* C35 as stated: every resetForm takes the lock, the lock is released on the
\* following tick and is never held forever; setFieldValue on a single checkbox
\* writes the value as it is under the lock or with force, and otherwise leaves
\* the given value or, when the path held it already, the uncheckedValue.
C35_LockAndSingleCheckbox ==
  /\ LockIsReleased
  /\ [][\A p \in Paths, v \in GivenValues, force \in BOOLEAN :
         (SetFieldValue(p, v, force) /\ SingleCheckboxAt(p))
           => formValues'[p] = SingleCheckboxWrite(p, v, force)]_vars

\* C35 amended: the same, where the toggle is claimed only for a path that
\* does not hold a list (a list is toggled element by element, as for a group).
C35_LockAndSingleCheckboxNoList ==
  /\ LockIsReleased
  /\ [][\A p \in Paths, v \in GivenValues, force \in BOOLEAN :
         (SetFieldValue(p, v, force) /\ SingleCheckboxAt(p)
            /\ (force \/ RESET_LOCK \/ formValues[p].k # "arr"))
           => formValues'[p] = SingleCheckboxWrite(p, v, force)]_vars

\* C35 witness: the lock is held after a reset and a single checkbox holds a
\* value that is not the one the reset gave it, written as it is under the lock.
C35_Witness ==
  \E p \in Paths :
    /\ RESET_LOCK
    /\ SingleCheckboxAt(p)
    /\ formValues[p] = Sc("blue")
    /\ originalInitialValues[p] # Sc("blue")

====
